---- MODULE Spec2Model ----
(***************************************************************************)
(* Telegram-Archiver: the batch archiver (telegram_archiver.py), the web   *)
(* frontend's search, archiving-process manager and settings store         *)
(* (web_frontend.py).  Text is modelled as TLA+ strings, character by      *)
(* character; the regular expressions of the code are operators over them. *)
(***************************************************************************)
EXTENDS Integers, Sequences, FiniteSets, TLC

VARIABLES
    fs,          \* the archive tree: <<root, channel dir, file name>> -> text
    now,         \* the wall clock, in seconds since 2024-01-01 00:00:00
    last,        \* the latest call of a function or endpoint: inputs and result
    nArch,       \* archive_channel_messages calls made so far
    nDown,       \* download_media_file calls made on their own so far
    roots,       \* the archive root directories that exist
    web,         \* the web frontend: whether it is up, and ArchiveManager.archive_dirs
    status,      \* ArchiveManager.archiving_status
    archiving_process,  \* ArchiveManager.archiving_process: a child's number, 0 for None
    workers,     \* the threads running _run_archiving_process, in start order
    children,    \* the archiver child processes, in spawn order
    stopper,     \* the request thread inside stop_archiving
    config_json, \* the file config.json: whether it exists, and its text
    requests,    \* the requests to the config endpoints, in arrival order
    writes,      \* completed writes of config.json so far
    monitor,     \* the TelegramMonitor: its position, monitored_channels, running
    handlers,    \* the executions of save_single_message, in start order
    batch,       \* the run of archive_multiple_channels
    control      \* monitor_control.py: the command in progress, and the monitor processes

archVars == <<fs, now, nArch, nDown, roots>>

cfgVars == <<config_json, requests, writes>>

runVars == <<monitor, handlers, batch, control>>

(***************************************************************************)
(* Strings                                                                 *)
(***************************************************************************)
None == "None"

Min(S) == CHOOSE x \in S : \A y \in S : x <= y
Max(S) == CHOOSE x \in S : \A y \in S : x >= y

CharAt(s, i) == SubSeq(s, i, i)

\* s[i:] of Python, 1-based
From(s, i) == SubSeq(s, i, Len(s))

\* pat occurs in s at index i (the first character is compared first)
StartsAt(s, pat, i) ==
    /\ i >= 1
    /\ i + Len(pat) - 1 <= Len(s)
    /\ pat = "" \/ CharAt(s, i) = CharAt(pat, 1)
    /\ SubSeq(s, i, i + Len(pat) - 1) = pat

StartsWith(s, pat) == StartsAt(s, pat, 1)

EndsWith(s, pat) == Len(pat) <= Len(s) /\ SubSeq(s, Len(s) - Len(pat) + 1, Len(s)) = pat

\* the first index >= from at which pat occurs in s, 0 when there is none
IndexFrom(s, pat, from) ==
    LET hits == {i \in from..(Len(s) - Len(pat) + 1) : StartsAt(s, pat, i)}
    IN  IF hits = {} THEN 0 ELSE Min(hits)

Contains(s, pat) == IndexFrom(s, pat, 1) > 0

Digits == {"0", "1", "2", "3", "4", "5", "6", "7", "8", "9"}

DigitStr(d) == CASE d = 0 -> "0" [] d = 1 -> "1" [] d = 2 -> "2" [] d = 3 -> "3" [] d = 4 -> "4"
                 [] d = 5 -> "5" [] d = 6 -> "6" [] d = 7 -> "7" [] d = 8 -> "8" [] d = 9 -> "9"

RECURSIVE ToStr(_)
\* str(n) of a natural number
ToStr(n) == IF n < 10 THEN DigitStr(n) ELSE ToStr(n \div 10) \o DigitStr(n % 10)

RECURSIVE Repeat(_, _)
\* c * n of Python
Repeat(c, n) ==
    IF n <= 0 THEN "" ELSE IF n = 1 THEN c
    ELSE Repeat(c, n \div 2) \o Repeat(c, n - (n \div 2))

Whitespace == {" ", "\n", "\t", "\r"}

\* str.strip()
Strip(s) ==
    LET keep == {i \in 1..Len(s) : CharAt(s, i) \notin Whitespace}
    IN  IF keep = {} THEN "" ELSE SubSeq(s, Min(keep), Max(keep))

LowerChar(c) ==
    CASE c = "A" -> "a" [] c = "B" -> "b" [] c = "C" -> "c" [] c = "D" -> "d" [] c = "E" -> "e"
      [] c = "F" -> "f" [] c = "G" -> "g" [] c = "H" -> "h" [] c = "I" -> "i" [] c = "J" -> "j"
      [] c = "K" -> "k" [] c = "L" -> "l" [] c = "M" -> "m" [] c = "N" -> "n" [] c = "O" -> "o"
      [] c = "P" -> "p" [] c = "Q" -> "q" [] c = "R" -> "r" [] c = "S" -> "s" [] c = "T" -> "t"
      [] c = "U" -> "u" [] c = "V" -> "v" [] c = "W" -> "w" [] c = "X" -> "x" [] c = "Y" -> "y"
      [] c = "Z" -> "z" [] OTHER -> c

RECURSIVE LowerRange(_, _, _)
LowerRange(s, a, b) ==
    IF a > b THEN "" ELSE IF a = b THEN LowerChar(CharAt(s, a))
    ELSE LowerRange(s, a, (a + b) \div 2) \o LowerRange(s, ((a + b) \div 2) + 1, b)

\* str.lower()
Lower(s) == LowerRange(s, 1, Len(s))

(***************************************************************************)
(* Time: strftime over January 2024                                        *)
(***************************************************************************)
Day == 86400

Two(n) == IF n < 10 THEN "0" \o ToStr(n) ELSE ToStr(n)

\* strftime("%Y-%m-%d")
DateStr(t) == "2024-01-" \o Two((t \div Day) + 1)

\* strftime("%H<sep>%M<sep>%S")
ClockStr(t, sep) ==
    LET s == t % Day
    IN  Two(s \div 3600) \o sep \o Two((s % 3600) \div 60) \o sep \o Two(s % 60)

\* strftime("%Y-%m-%d %H:%M:%S")
Timestamp(t) == DateStr(t) \o " " \o ClockStr(t, ":")

\* strftime("%Y-%m-%d_%H-%M-%S")
FileStamp(t) == DateStr(t) \o "_" \o ClockStr(t, "-")

(***************************************************************************)
(* Messages, as the chat-client library hands them over                    *)
(***************************************************************************)
NoSender == [kind |-> "none", first_name |-> None, last_name |-> None, title |-> None]

User(first, lastn) == [kind |-> "user", first_name |-> first, last_name |-> lastn, title |-> None]

Titled(title) == [kind |-> "chat", first_name |-> None, last_name |-> None, title |-> title]

\* attributes: the document's attribute list, each entry the attribute's
\* file_name, or None for an attribute that has none
NoMedia == [kind |-> "none", has_document |-> FALSE, attributes |-> <<>>, mime_type |-> None]

Photo == [kind |-> "photo", has_document |-> FALSE, attributes |-> <<>>, mime_type |-> None]

Document(attrs, mime) == [kind |-> "document", has_document |-> TRUE, attributes |-> attrs, mime_type |-> mime]

EmptyDocument == [kind |-> "document", has_document |-> FALSE, attributes |-> <<>>, mime_type |-> None]

\* any other media class; type(message.media).__name__ is fixed per class
OtherMedia == [kind |-> "MessageMediaWebPage", has_document |-> FALSE, attributes |-> <<>>, mime_type |-> None]

Msg(id, date, sender, text, media, forward, reply_to) ==
    [id |-> id, date |-> date, sender |-> sender, text |-> text, media |-> media,
     forward |-> forward, reply_to |-> reply_to]

(***************************************************************************)
(* TelegramArchiver.sanitize_filename                                      *)
(***************************************************************************)
InvalidChars == {"<", ">", ":", "\"", "/", "\\", "|", "?", "*"}

MaxNameLen == 100

RECURSIVE ReplaceInvalid(_, _, _)
ReplaceInvalid(s, a, b) ==
    IF a > b THEN ""
    ELSE IF a = b THEN (IF CharAt(s, a) \in InvalidChars THEN "_" ELSE CharAt(s, a))
    ELSE ReplaceInvalid(s, a, (a + b) \div 2) \o ReplaceInvalid(s, ((a + b) \div 2) + 1, b)

sanitize_filename(text) ==
    LET sanitized == ReplaceInvalid(text, 1, Len(text))
    IN  IF Len(sanitized) > MaxNameLen THEN SubSeq(sanitized, 1, MaxNameLen) ELSE sanitized

(***************************************************************************)
(* TelegramArchiver.download_media_file: the name of the stored file       *)
(***************************************************************************)
\* the first attribute that has a non-empty file_name, or None
DeclaredFileName(attrs) ==
    LET named == {i \in 1..Len(attrs) : attrs[i] /= None /\ attrs[i] /= ""}
    IN  IF named = {} THEN None ELSE attrs[Min(named)]

\* Path(name).suffix
PathSuffix(path) ==
    LET slashes == {i \in 1..Len(path) : CharAt(path, i) = "/"}
        name    == IF slashes = {} THEN path ELSE From(path, Max(slashes) + 1)
        dots    == {i \in 1..Len(name) : CharAt(name, i) = "."}
        i       == IF dots = {} THEN 0 ELSE Max(dots)
    IN  IF 1 < i /\ i < Len(name) THEN From(name, i) ELSE ""

MimeTable == {"image/jpeg", "image/png", "image/gif", "image/webp", "video/mp4", "video/webm",
              "application/pdf", "text/plain"}

mime_to_ext(mime) ==
    CASE mime = "image/jpeg" -> ".jpg" [] mime = "image/png" -> ".png" [] mime = "image/gif" -> ".gif"
      [] mime = "image/webp" -> ".webp" [] mime = "video/mp4" -> ".mp4" [] mime = "video/webm" -> ".webm"
      [] mime = "application/pdf" -> ".pdf" [] mime = "text/plain" -> ".txt"
      [] OTHER -> ".bin"

MimeFallbackNoDefault(media, declared) ==
    IF declared = "" /\ media.mime_type /= None /\ media.mime_type /= "" /\ media.mime_type \in MimeTable
    THEN mime_to_ext(media.mime_type) ELSE declared

\* "Fallback to mime type": only when no extension was declared and the
\* document has a MIME type
MimeFallback(media, declared) ==
    IF declared = "" /\ media.mime_type /= None /\ media.mime_type /= ""
    THEN mime_to_ext(media.mime_type) ELSE declared

file_extension(media) ==
    IF media.kind = "photo" THEN ".jpg"
    ELSE IF media.kind = "document" /\ media.has_document
         THEN LET original_name == DeclaredFileName(media.attributes)
                  declared == IF original_name = None THEN "" ELSE PathSuffix(original_name)
              IN  MimeFallback(media, declared)
         ELSE ""

media_filename(media, message_id) == "msg_" \o ToStr(message_id) \o file_extension(media)

\* download_media_file(message, media_dir, message_id) with the library's
\* download ending as `outcome`: "saved" (a path came back), "nothing" (None
\* came back) or "raised".  The result is the value returned and the file
\* stored in media_dir, None when none was.
download_media_file(message, message_id, download_media, outcome) ==
    IF message.media.kind = "none" \/ ~download_media
    THEN [returned |-> None, stored |-> None]
    ELSE LET filename == media_filename(message.media, message_id)
         IN  IF outcome = "saved" THEN [returned |-> "media/" \o filename, stored |-> filename]
             ELSE [returned |-> None, stored |-> None]

(***************************************************************************)
(* TelegramArchiver.format_message_as_markdown.  The emoji of the source   *)
(* are written as their ASCII short names (:camera:, :paperclip:).         *)
(***************************************************************************)
SenderLabel(sender) ==
    IF sender.kind = "user"
    THEN (IF sender.first_name = None \/ sender.first_name = "" THEN "Unknown" ELSE sender.first_name)
         \o (IF sender.last_name /= None /\ sender.last_name /= "" THEN " " \o sender.last_name ELSE "")
    ELSE IF sender.kind = "chat" THEN sender.title
    ELSE "Unknown"

HeaderBlock(message, channel_name) ==
    "## Message " \o ToStr(message.id) \o "\n\n"
    \o "**Channel:** " \o channel_name \o "\n"
    \o "**Sender:** " \o SenderLabel(message.sender) \o "\n"
    \o "**Date:** " \o Timestamp(message.date) \o "\n"
    \o "**Message ID:** " \o ToStr(message.id) \o "\n\n"

ContentBlock(message) ==
    IF message.text /= None /\ message.text /= ""
    THEN "### Content\n\n" \o Strip(message.text) \o "\n\n"
    ELSE ""

MediaBlock(message, media_path) ==
    LET media == message.media
    IN  IF media.kind = "none" THEN ""
        ELSE IF media.kind = "photo"
        THEN (IF media_path /= None
              THEN "**Media:** :camera: Photo\n\n![Photo](" \o media_path \o ")\n\n"
              ELSE "**Media:** :camera: Photo\n\n")
        ELSE IF media.kind = "document"
        THEN (IF ~media.has_document THEN ""
              ELSE LET declared  == DeclaredFileName(media.attributes)
                       file_name == IF declared = None THEN "Unknown" ELSE declared
                   IN  IF media_path /= None
                       THEN (IF media.mime_type /= None /\ StartsWith(media.mime_type, "image/")
                             THEN "**Media:** :camera: Image Document (" \o file_name \o ")\n\n!["
                                  \o file_name \o "](" \o media_path \o ")\n\n"
                             ELSE "**Media:** :paperclip: Document (" \o file_name \o ")\n\n[Download "
                                  \o file_name \o "](" \o media_path \o ")\n\n")
                       ELSE "**Media:** :paperclip: Document (" \o file_name \o ")\n\n")
        ELSE "**Media:** " \o media.kind \o "\n\n"

ForwardBlock(message) == IF message.forward THEN "**Forwarded Message**\n\n" ELSE ""

ReplyBlock(message) ==
    IF message.reply_to /= 0
    THEN "**Reply to:** Message " \o ToStr(message.reply_to) \o "\n\n"
    ELSE ""

Separator == "---\n\n"

FormatReplyFirst(message, channel_name, media_path) ==
    HeaderBlock(message, channel_name) \o ContentBlock(message) \o MediaBlock(message, media_path)
    \o ReplyBlock(message) \o ForwardBlock(message) \o Separator

format_message_as_markdown(message, channel_name, media_path) ==
    HeaderBlock(message, channel_name) \o ContentBlock(message) \o MediaBlock(message, media_path)
    \o ForwardBlock(message) \o ReplyBlock(message) \o Separator

(***************************************************************************)
(* The chat service: what get_entity and iter_messages answer              *)
(***************************************************************************)
\* the clock when the model starts: 2024-01-11 12:00:00
StartTime == 10 * Day + 12 * 3600

LongBody == Repeat("a", 293) \o "xx"

NewsHistory ==
    << Msg(12, StartTime - 3600, User("Ann", "Lee"), "Hello hello", Photo, FALSE, 0),
       Msg(7, StartTime - 3 * Day, Titled("News"), LongBody, NoMedia, TRUE, 0) >>

QaHistory ==
    << Msg(12, StartTime - 7200, NoSender, "see **Channel:** hello", Document(<<None, "a.pdf">>, "application/pdf"), FALSE, 7),
       Msg(3, StartTime - 2 * Day, User("", None), " xx Hello\n", NoMedia, FALSE, 0) >>

\* channel identifiers a config can name; "@gone" resolves to nothing and
\* "@qa", "@q-a" are two channels whose titles sanitize to the same name
Identifiers == {"@news", "@qa", "@q-a", "@gone"}

Resolvable == {"@news", "@qa", "@q-a"}

Title(identifier) ==
    CASE identifier = "@news" -> "News" [] identifier = "@qa" -> "Q?A" [] identifier = "@q-a" -> "Q:A"

\* newest first, as iter_messages yields them
History(identifier) ==
    CASE identifier = "@news" -> NewsHistory [] identifier = "@qa" -> QaHistory
      [] identifier = "@q-a" -> <<QaHistory[2]>>

RECURSIVE FetchFrom(_, _, _, _)
\* the loop over iter_messages(limit=limit, offset_date=end_date): stops at
\* the first message older than start_date
FetchFrom(history, i, limit, start_date) ==
    IF i > Len(history) \/ i > limit \/ history[i].date < start_date THEN <<>>
    ELSE <<history[i]>> \o FetchFrom(history, i + 1, limit, start_date)

OlderThan(history, end_date) == SelectSeq(history, LAMBDA m : m.date < end_date)

RECURSIVE InsertByDate(_, _)
InsertByDate(sorted, m) ==
    IF sorted = <<>> THEN <<m>>
    ELSE IF m.date < Head(sorted).date THEN <<m>> \o sorted
    ELSE <<Head(sorted)>> \o InsertByDate(Tail(sorted), m)

RECURSIVE SortStable(_, _)
SortStable(done, rest) ==
    IF rest = <<>> THEN done ELSE SortStable(InsertByDate(done, Head(rest)), Tail(rest))

\* messages.sort(key=lambda x: x.date): stable, oldest first
SortByDate(messages) == SortStable(<<>>, messages)

(***************************************************************************)
(* TelegramArchiver.archive_channel_messages                               *)
(***************************************************************************)
OutputDir == "archived_channels"

BatchFileName(safe_channel_name, t) == safe_channel_name \o "_" \o FileStamp(t) \o ".md"

MetadataFileName(safe_channel_name, t) == safe_channel_name \o "_" \o FileStamp(t) \o "_metadata.json"

BatchHeader(channel_name, n, start_date, end_date) ==
    "# " \o channel_name \o "\n\n"
    \o "**Archive Date:** " \o Timestamp(end_date) \o "\n"
    \o "**Messages:** " \o ToStr(n) \o "\n"
    \o "**Date Range:** " \o DateStr(start_date) \o " to " \o DateStr(end_date) \o "\n\n"
    \o "---\n\n"

RECURSIVE RenderAll(_, _, _, _, _)
\* the loop over the sorted messages: download, render, write
RenderAll(messages, i, channel_name, download_media, outcome) ==
    IF i > Len(messages) THEN ""
    ELSE LET m == messages[i]
             media_path == download_media_file(m, m.id, download_media, outcome).returned
         IN  format_message_as_markdown(m, channel_name, media_path)
             \o RenderAll(messages, i + 1, channel_name, download_media, outcome)

\* the media files the loop stores: name -> content
StoredMedia(messages, channel_name, download_media, outcome) ==
    LET stored(m) == download_media_file(m, m.id, download_media, outcome).stored
        idx == {i \in 1..Len(messages) : stored(messages[i]) /= None}
    IN  {<<stored(messages[i]), "media of " \o channel_name \o " message " \o ToStr(messages[i].id)>> : i \in idx}

Write(files, path, text) == [p \in DOMAIN files \cup {path} |-> IF p = path THEN text ELSE files[p]]

RECURSIVE WriteAll(_, _, _)
WriteAll(files, dir, entries) ==
    IF entries = {} THEN files
    ELSE LET e == CHOOSE x \in entries : TRUE
         IN  WriteAll(Write(files, <<dir[1], dir[2], "media/" \o e[1]>>, e[2]), dir, entries \ {e})

\* where a call fails with an exception once its batch file is open: at the
\* k-th message (the file keeps what was written before it), at the opening
\* of the metadata file, or nowhere
Faults == {"none", "message 1", "message 2", "metadata"}

FailsAt(fault) == CASE fault = "message 1" -> 1 [] fault = "message 2" -> 2 [] OTHER -> 0

\* One call archive_channel_messages(channel_identifier, limit, days_back) at
\* clock t on the tree `files`, the library's downloads ending as `outcome`
\* and the writes failing as `fault`: the tree afterwards, the value returned
\* and the batch file written.
archive_channel_messages(files, t, channel_identifier, limit, days_back, download_media, outcome, fault) ==
    IF channel_identifier \notin Resolvable
    THEN [files |-> files, returned |-> FALSE, filepath |-> <<>>]
    ELSE LET channel_name == Title(channel_identifier)
             end_date   == t
             start_date == end_date - days_back * Day
             safe_channel_name == sanitize_filename(channel_name)
             channel_dir == <<OutputDir, safe_channel_name>>
             messages == FetchFrom(OlderThan(History(channel_identifier), end_date), 1, limit, start_date)
         IN  IF messages = <<>>
             THEN [files |-> files, returned |-> TRUE, filepath |-> <<>>]
             ELSE LET filepath == <<OutputDir, safe_channel_name, BatchFileName(safe_channel_name, t)>>
                      metadata_file == <<OutputDir, safe_channel_name, MetadataFileName(safe_channel_name, t)>>
                      raised == FailsAt(fault) \in 1..Len(messages)
                      sorted == IF raised THEN SubSeq(SortByDate(messages), 1, FailsAt(fault) - 1)
                                ELSE SortByDate(messages)
                      text == BatchHeader(channel_name, Len(messages), start_date, end_date)
                              \o RenderAll(sorted, 1, channel_name, download_media, outcome)
                      withMedia == WriteAll(files, channel_dir,
                                            StoredMedia(sorted, channel_name, download_media, outcome))
                      withBatch == Write(withMedia, filepath, text)
                      metadata == "{\"message_count\": " \o ToStr(Len(messages)) \o ", \"file_path\": \""
                                  \o OutputDir \o "/" \o safe_channel_name \o "/" \o filepath[3] \o "\"}"
                  IN  IF raised \/ fault = "metadata"
                      THEN [files |-> withBatch, returned |-> FALSE, filepath |-> filepath]
                      ELSE [files |-> Write(withBatch, metadata_file, metadata), returned |-> TRUE,
                            filepath |-> filepath]

(***************************************************************************)
(* Bounds                                                                  *)
(***************************************************************************)
MaxArchives == 2

MaxTicks == 1

Limits == {1, 2}

DaysBack == {0, 1, 7}

(***************************************************************************)
(* State                                                                   *)
(***************************************************************************)
mgrVars == <<status, archiving_process, workers, children, stopper>>

vars ==
    <<fs, now, nArch, nDown, roots, web, status, archiving_process, workers, children, stopper,
      config_json, requests, writes, monitor, handlers, batch, control, last>>

NoCall == [op |-> "none"]

EmptyTree == [p \in {} |-> ""]

ArchInit == fs = EmptyTree /\ now = StartTime /\ nArch = 0 /\ nDown = 0 /\ roots = {}

WebDown == [up |-> FALSE, archive_dirs |-> <<>>]

WebInit == web = WebDown

\* ArchiveManager.__init__
IdleStatus ==
    [running |-> FALSE, progress |-> 0, current_channel |-> "", total_channels |-> 0,
     processed_channels |-> 0, start_time |-> None, logs |-> <<>>, error |-> None]

StopperIdle == [pc |-> "idle"]

MgrInit ==
    /\ status = IdleStatus
    /\ archiving_process = 0
    /\ workers = <<>>
    /\ children = <<>>
    /\ stopper = StopperIdle

NoFile == [exists |-> FALSE, text |-> ""]

CfgInit == config_json = NoFile /\ requests = <<>> /\ writes = 0

\* no monitor and no archiver run yet
NoMonitor ==
    [pc |-> "none", monitored_channels |-> <<>>, running |-> FALSE, download_media |-> TRUE,
     channels |-> <<>>, i |-> 0, registered |-> {}, events |-> <<>>]

NoBatch == [pc |-> "none"]

\* no command of monitor_control.py in progress, no monitor process
NoControl == [command |-> "none", pc |-> "idle", pid |-> {}, processes |-> <<>>, issued |-> 0]

RunInit == monitor = NoMonitor /\ handlers = <<>> /\ batch = NoBatch /\ control = NoControl

Init == ArchInit /\ WebInit /\ MgrInit /\ CfgInit /\ RunInit /\ last = NoCall

(***************************************************************************)
(* The archiver at work                                                    *)
(***************************************************************************)
\* the clock passes into the next second
Tick ==
    /\ last = NoCall
    /\ now < StartTime + MaxTicks
    /\ now' = now + 1
    /\ UNCHANGED <<fs, nArch, nDown, roots, web, mgrVars, cfgVars, runVars, last>>

\* the caller takes the result of the latest call
Return ==
    /\ last /= NoCall
    /\ last' = NoCall
    /\ UNCHANGED <<archVars, web, mgrVars, cfgVars, runVars>>

\* one call of archive_channel_messages, its arguments, the archiver's
\* download_media flag and the downloads' outcome drawn from the given sets
ArchiveChannelOf(identifiers, limits, days, flags, outcomes, faults) ==
    /\ last = NoCall
    /\ nArch < MaxArchives
    /\ \E channel_identifier \in identifiers, limit \in limits, days_back \in days,
          download_media \in flags, outcome \in outcomes, fault \in faults :
          LET r == archive_channel_messages(fs, now, channel_identifier, limit, days_back,
                                            download_media, outcome, fault)
          IN  /\ fs' = r.files
              /\ last' = [op |-> "archive_channel_messages", channel |-> channel_identifier,
                          returned |-> r.returned, filepath |-> r.filepath]
    /\ nArch' = nArch + 1
    /\ roots' = roots \cup {OutputDir}    \* TelegramArchiver.__init__: output_dir.mkdir
    /\ UNCHANGED <<now, nDown, web, mgrVars, cfgVars, runVars>>

ArchiveChannel == ArchiveChannelOf(Identifiers, Limits, DaysBack, BOOLEAN, {"saved", "nothing"}, Faults)

NextArchive == ArchiveChannel \/ Tick \/ Return

SpecArchive == Init /\ [][NextArchive]_vars

IsBatchFile(p) == p[1] = OutputDir /\ EndsWith(p[3], ".md") /\ ~StartsWith(p[3], "media/")

\* C10: batch archive files are write-once: once archive_channel_messages has
\* written a batch file, no later call changes the content at that path.
C10_BatchFilesWriteOnce ==
    [][\A p \in DOMAIN fs : IsBatchFile(p) => (p \in DOMAIN fs' /\ fs'[p] = fs[p])]_vars

(***************************************************************************)
(* download_media_file and format_message_as_markdown on their own         *)
(***************************************************************************)
MaxDownloads == 2

MessageIds == {7, 12}

AttributeLists == {<<>>, <<None, "a.pdf">>, <<"README">>, <<"", "b.tar.gz">>}

MimeTypes == {None, "", "image/png", "application/zip"}

MediaSet == {NoMedia, Photo, OtherMedia, EmptyDocument}
            \cup {Document(attrs, mime) : attrs \in AttributeLists, mime \in MimeTypes}

DownloadMedia ==
    /\ last = NoCall
    /\ nDown < MaxDownloads
    /\ \E message_id \in MessageIds, media \in MediaSet, download_media \in BOOLEAN,
          outcome \in {"saved", "nothing", "raised"} :
          LET message == Msg(message_id, StartTime - Day, NoSender, "", media, FALSE, 0)
              r == download_media_file(message, message_id, download_media, outcome)
          IN  /\ fs' = IF r.stored = None THEN fs
                       ELSE Write(fs, <<OutputDir, "News", "media/" \o r.stored>>, "media")
              /\ last' = [op |-> "download_media_file", media |-> media, message_id |-> message_id,
                          download_media |-> download_media, outcome |-> outcome,
                          returned |-> r.returned, stored |-> r.stored]
    /\ nDown' = nDown + 1
    /\ roots' = roots \cup {OutputDir}
    /\ UNCHANGED <<now, nArch, web, mgrVars, cfgVars, runVars>>

NextMedia == DownloadMedia \/ Return

SpecMedia == Init /\ [][NextMedia]_vars

Senders == {NoSender, User("Ann", "Lee"), User("", None), User("Bob", ""), Titled("News")}

Bodies == {"", "Hi", " x\n", "a\n\n**Media:** b"}

FormatMedia == {NoMedia, Photo, OtherMedia, EmptyDocument, Document(<<None, "a.pdf">>, "application/pdf"),
                Document(<<>>, "image/png"), Document(<<"p.png">>, "image/png")}

FormatInputs ==
    {[op |-> "input", message |-> Msg(id, date, sender, text, media, forward, reply_to),
      channel_name |-> channel_name, media_path |-> media_path] :
        id \in MessageIds, date \in {StartTime - 3600, StartTime - 3 * Day}, sender \in Senders,
        text \in Bodies, media \in FormatMedia, forward \in BOOLEAN, reply_to \in {0, 7},
        channel_name \in {"News", "Q?A"}, media_path \in {None, "media/msg_7.jpg"}}

InitFormat == ArchInit /\ WebInit /\ MgrInit /\ CfgInit /\ RunInit /\ last \in FormatInputs

FormatMessage ==
    /\ last.op = "input"
    /\ last' = [op |-> "format_message_as_markdown", message |-> last.message,
                channel_name |-> last.channel_name, media_path |-> last.media_path,
                text |-> format_message_as_markdown(last.message, last.channel_name, last.media_path)]
    /\ UNCHANGED <<archVars, web, mgrVars, cfgVars, runVars>>

SpecFormat == InitFormat /\ [][FormatMessage]_vars

(***************************************************************************)
(* C8: the name of a stored media file                                     *)
(***************************************************************************)
DownloadDone == last.op = "download_media_file"

DeclaredSuffix(media) ==
    IF media.kind = "document" /\ media.has_document /\ DeclaredFileName(media.attributes) /= None
    THEN PathSuffix(DeclaredFileName(media.attributes)) ELSE ""

HasMime(media) == media.kind = "document" /\ media.has_document /\ media.mime_type \notin {None, ""}

\* C8 as stated: for every message with media and downloading enabled the
\* stored file is msg_<id><ext>, ext the declared file name's suffix when there
\* is one, otherwise the MIME table's extension, and .bin whenever neither is
\* available.
C8_NameAsStated ==
    (DownloadDone /\ last.media.kind /= "none" /\ last.download_media /\ last.outcome = "saved")
    => last.stored = "msg_" \o ToStr(last.message_id)
                     \o (IF DeclaredSuffix(last.media) /= "" THEN DeclaredSuffix(last.media)
                         ELSE IF HasMime(last.media) /\ last.media.mime_type \in MimeTable
                              THEN mime_to_ext(last.media.mime_type)
                              ELSE ".bin")

C8_Extension(media) ==
    CASE media.kind = "photo" -> ".jpg"
      [] media.kind = "document" /\ DeclaredSuffix(media) /= "" -> DeclaredSuffix(media)
      [] media.kind = "document" /\ DeclaredSuffix(media) = "" /\ HasMime(media)
           /\ media.mime_type \in MimeTable -> mime_to_ext(media.mime_type)
      [] media.kind = "document" /\ DeclaredSuffix(media) = "" /\ HasMime(media)
           /\ media.mime_type \notin MimeTable -> ".bin"
      [] OTHER -> ""

\* C8 (amended): the stored file is msg_<id><ext>, a function of the message
\* id and the media alone: ext is .jpg for a photo; for a document the
\* declared file name's suffix when there is one, otherwise the MIME table's
\* extension, .bin when the document's MIME type is not in the table; and
\* empty for a document with neither and for every other kind of media.
C8_MediaFileName ==
    DownloadDone =>
        IF last.media.kind /= "none" /\ last.download_media /\ last.outcome = "saved"
        THEN /\ last.stored = "msg_" \o ToStr(last.message_id) \o C8_Extension(last.media)
             /\ last.returned = "media/" \o last.stored
             /\ <<OutputDir, "News", "media/" \o last.stored>> \in DOMAIN fs
        ELSE last.stored = None /\ last.returned = None

C8_Witness ==
    /\ DownloadDone /\ last.outcome = "saved" /\ last.download_media
    /\ last.media.kind = "document" /\ last.media.mime_type = "application/zip"
    /\ last.stored = "msg_12.bin"

(***************************************************************************)
(* C9: the layout of a rendered message                                    *)
(***************************************************************************)
FormatDone == last.op = "format_message_as_markdown"

\* s without its suffix suf
DropSuffix(s, suf) == SubSeq(s, 1, Len(s) - Len(suf))

\* s without its first n characters
DropPrefix(s, n) == From(s, n + 1)

HasMediaMarkup(media) == media.kind /= "none" /\ (media.kind = "document" => media.has_document)

C9_Layout(text, m, channel_name) ==
    LET head1 == "## Message " \o ToStr(m.id) \o "\n\n**Channel:** " \o channel_name \o "\n**Sender:** "
        head2 == "\n**Date:** " \o Timestamp(m.date) \o "\n**Message ID:** " \o ToStr(m.id) \o "\n\n"
        k     == IndexFrom(text, head2, Len(head1) + 1)
        reply == "**Reply to:** Message " \o ToStr(m.reply_to) \o "\n\n"
        fwd   == "**Forwarded Message**\n\n"
        body  == "### Content\n\n" \o Strip(m.text) \o "\n\n"
        t1    == DropSuffix(text, Separator)
        t2    == IF m.reply_to /= 0 THEN DropSuffix(t1, reply) ELSE t1
        t3    == IF m.forward THEN DropSuffix(t2, fwd) ELSE t2
        t4    == DropPrefix(t3, k + Len(head2) - 1)
        t5    == IF m.text /= "" THEN DropPrefix(t4, Len(body)) ELSE t4
    IN  /\ StartsWith(text, head1)
        /\ k > Len(head1)
        /\ ~Contains(SubSeq(text, Len(head1) + 1, k - 1), "\n")
        /\ EndsWith(text, Separator)
        /\ m.reply_to /= 0 => EndsWith(t1, reply)
        /\ m.forward => EndsWith(t2, fwd)
        /\ m.text /= "" => StartsWith(t4, body)
        /\ IF HasMediaMarkup(m.media) THEN StartsWith(t5, "**Media:** ") /\ EndsWith(t5, "\n\n")
           ELSE t5 = ""

\* C9: the text format_message_as_markdown returns is laid out in the fixed
\* order header line with the id, channel, sender, date, the id again, then
\* the content (if any), the media markup (if any), the forwarded annotation,
\* the reply annotation, and it ends with the separator; nothing but the
\* arguments enters it.
C9_FixedOrder == FormatDone => C9_Layout(last.text, last.message, last.channel_name)

C9_Witness ==
    /\ FormatDone /\ last.message.forward /\ last.message.reply_to /= 0
    /\ last.message.text /= "" /\ last.message.media.kind = "document" /\ last.media_path /= None
    /\ C9_Layout(last.text, last.message, last.channel_name)

(***************************************************************************)
(* ArchiveManager.search_messages (web_frontend.py).  The emoji :clapper:  *)
(* stands for the film clapper of the source.                              *)
(***************************************************************************)
DefaultArchiveDirs == <<"archived_channels", "live_archive">>

\* ArchiveManager.__init__: the default directories that exist right now
ExistingArchiveDirs == SelectSeq(DefaultArchiveDirs, LAMBDA d : d \in roots)

\* the end of the run of characters of class `cls` that starts at k (k - 1
\* when the run is empty)
RunEnd(s, k, cls) ==
    LET stops == {j \in k..Len(s) : CharAt(s, j) \notin cls}
    IN  IF stops = {} THEN Len(s) ELSE Min(stops) - 1

\* the end of the run of characters other than newline that starts at k
LineEnd(s, k) ==
    LET stops == {j \in k..Len(s) : CharAt(s, j) = "\n"}
    IN  IF stops = {} THEN Len(s) ELSE Min(stops) - 1

MessageHeader == "## Message "

\* where r'^## Message \d+' (re.MULTILINE) matches
HeaderStarts(content) ==
    {i \in 1..Len(content) :
        /\ i = 1 \/ CharAt(content, i - 1) = "\n"
        /\ StartsAt(content, MessageHeader, i)
        /\ i + Len(MessageHeader) <= Len(content)
        /\ CharAt(content, i + Len(MessageHeader)) \in Digits}

HeaderEnd(content, i) == RunEnd(content, i + Len(MessageHeader), Digits)

RECURSIVE SectionsFrom(_, _)
SectionsFrom(content, starts) ==
    IF starts = {} THEN <<>>
    ELSE LET i    == Min(starts)
             rest == starts \ {i}
             stop == IF rest = {} THEN Len(content) ELSE Min(rest) - 1
         IN  <<SubSeq(content, HeaderEnd(content, i) + 1, stop)>> \o SectionsFrom(content, rest)

\* re.split(r'^## Message \d+', content, flags=re.MULTILINE)[1:]
SplitMessages(content) == SectionsFrom(content, HeaderStarts(content))

\* re.search(label + r'(\d+)', message): group 1, or None
SearchDigits(message, label) ==
    LET hits == {i \in 1..Len(message) :
                    /\ StartsAt(message, label, i)
                    /\ i + Len(label) <= Len(message)
                    /\ CharAt(message, i + Len(label)) \in Digits}
    IN  IF hits = {} THEN None
        ELSE SubSeq(message, Min(hits) + Len(label), RunEnd(message, Min(hits) + Len(label), Digits))

\* re.search(label + r'([^\n]+)', message): group 1, or None
SearchLine(message, label) ==
    LET hits == {i \in 1..Len(message) :
                    /\ StartsAt(message, label, i)
                    /\ i + Len(label) <= Len(message)
                    /\ CharAt(message, i + Len(label)) /= "\n"}
    IN  IF hits = {} THEN None
        ELSE SubSeq(message, Min(hits) + Len(label), LineEnd(message, Min(hits) + Len(label)))

ContentLabel == "### Content\n\n"

\* re.search(r'### Content\n\n(.*?)(?=\n\n\*\*|$)', message, re.DOTALL):
\* group 1, or None.  The lazy group ends at the first place followed by
\* "\n\n**", or at the end of the text ($ also matches before a final newline).
SearchContent(message) ==
    LET i == IndexFrom(message, ContentLabel, 1)
        c == i + Len(ContentLabel)
        ends == {e \in c..(Len(message) + 1) :
                    \/ StartsAt(message, "\n\n**", e)
                    \/ e = Len(message) + 1
                    \/ e = Len(message) /\ CharAt(message, e) = "\n"}
    IN  IF i = 0 THEN None ELSE SubSeq(message, c, Min(ends) - 1)

RECURSIVE HighlightFrom(_, _, _, _)
HighlightFrom(text, lowered, query_lower, pos) ==
    LET i == IndexFrom(lowered, query_lower, pos)
    IN  IF i = 0 THEN From(text, pos)
        ELSE SubSeq(text, pos, i - 1) \o "<mark>" \o SubSeq(text, i, i + Len(query_lower) - 1) \o "</mark>"
             \o HighlightFrom(text, lowered, query_lower, i + Len(query_lower))

\* re.sub(f'({re.escape(query)})', r'<mark>\1</mark>', content_text, flags=re.IGNORECASE)
Highlight(query, content_text) == HighlightFrom(content_text, Lower(content_text), Lower(query), 1)

SnippetLen == 300

\* highlighted_content[:300] + "..." if len(highlighted_content) > 300 else highlighted_content
Snippet(highlighted_content) ==
    IF Len(highlighted_content) > SnippetLen
    THEN SubSeq(highlighted_content, 1, SnippetLen) \o "..."
    ELSE highlighted_content

MediaType(message) ==
    IF ~Contains(message, "**Media:**") THEN ""
    ELSE IF Contains(message, ":camera: Photo") THEN "Photo"
    ELSE IF Contains(message, ":paperclip: Document") THEN "Document"
    ELSE IF Contains(message, ":clapper: Video") THEN "Video"
    ELSE ""

\* the test that makes a section a hit
IsHit(query, message) == Contains(Lower(message), Lower(query))

\* the result built for section i (0-based) of a file
SearchResult(query, channel_name, file_name, message, i) ==
    LET msg_id == SearchDigits(message, "**Message ID:** ")
        date   == SearchLine(message, "**Date:** ")
        sender == SearchLine(message, "**Sender:** ")
        found  == SearchContent(message)
        content_text == IF found = None THEN "" ELSE Strip(found)
    IN  [channel |-> channel_name,
         message_id |-> IF msg_id = None THEN "msg_" \o ToStr(i) ELSE msg_id,
         date |-> IF date = None THEN "Unknown" ELSE date,
         sender |-> IF sender = None THEN "Unknown" ELSE sender,
         content |-> Snippet(Highlight(query, content_text)),
         full_content |-> content_text,
         has_media |-> Contains(message, "**Media:**"),
         media_type |-> MediaType(message),
         file |-> file_name]

\* `if len(results) >= limit: return results`, tested after each append
LimitReached(results, limit) == Len(results) >= limit

RECURSIVE ScanMessages(_, _, _, _, _, _, _)
\* the loop over the sections of one file; done: the limit was reached
ScanMessages(query, limit, channel_name, file_name, messages, i, results) ==
    IF i > Len(messages) THEN [results |-> results, done |-> FALSE]
    ELSE IF IsHit(query, messages[i])
         THEN LET appended == Append(results, SearchResult(query, channel_name, file_name, messages[i], i - 1))
              IN  IF LimitReached(appended, limit) THEN [results |-> appended, done |-> TRUE]
                  ELSE ScanMessages(query, limit, channel_name, file_name, messages, i + 1, appended)
         ELSE ScanMessages(query, limit, channel_name, file_name, messages, i + 1, results)

RECURSIVE ScanFiles(_, _, _, _, _, _)
\* the loops over the channels and their *.md files, in the order `paths`
ScanFiles(files, query, limit, paths, k, results) ==
    IF k > Len(paths) THEN results
    ELSE LET p == paths[k]
             r == ScanMessages(query, limit, p[2], p[3], SplitMessages(files[p]), 1, results)
         IN  IF r.done THEN r.results ELSE ScanFiles(files, query, limit, paths, k + 1, r.results)

\* channel_dir.glob("*.md")
IsMarkdownOf(p, root, dir) ==
    p[1] = root /\ p[2] = dir /\ EndsWith(p[3], ".md") /\ ~StartsWith(p[3], "media/")

\* the directories under an archive directory
ChannelDirs(files, root) == {p[2] : p \in {q \in DOMAIN files : q[1] = root}}

\* the files search_messages reads: with a channel filter, that channel's
\* directory under every archive directory; without, every channel
\* directory not named "media"
Searched(files, archive_dirs, channel_name) ==
    {p \in DOMAIN files :
        /\ \E k \in 1..Len(archive_dirs) : archive_dirs[k] = p[1]
        /\ IF channel_name /= None THEN p[2] = channel_name ELSE p[2] /= "media"
        /\ IsMarkdownOf(p, p[1], p[2])}

DirIndex(archive_dirs, root) == Min({k \in 1..Len(archive_dirs) : archive_dirs[k] = root})

\* An order in which the directory listings can hand the files over:
\* archive directories in list order, the files of one channel directory
\* together, anything else as the file system pleases.
IsListingOrder(paths, archive_dirs) ==
    \A a, b \in 1..Len(paths) :
        a < b =>
            /\ DirIndex(archive_dirs, paths[a][1]) <= DirIndex(archive_dirs, paths[b][1])
            /\ (paths[a][1] = paths[b][1] /\ paths[a][2] = paths[b][2])
                  => \A c \in a..b : paths[c][1] = paths[a][1] /\ paths[c][2] = paths[a][2]

Orderings(S) ==
    {paths \in [1..Cardinality(S) -> S] : \A p \in S : \E k \in 1..Cardinality(S) : paths[k] = p}

search_messages(files, archive_dirs, query, channel_name, limit, paths) ==
    ScanFiles(files, query, limit, paths, 1, <<>>)

(***************************************************************************)
(* The web frontend: start-up and /api/search                              *)
(***************************************************************************)
Queries == {"hello", "XX", "channel"}

\* what int(request.args.get('limit', 20)) can be
SearchLimits == {-1, 0, 1, 2}

ChannelFilters == {None, "News"}

\* archive_manager = ArchiveManager(), when the module is loaded
StartWeb ==
    /\ last = NoCall
    /\ ~web.up
    /\ web' = [up |-> TRUE, archive_dirs |-> ExistingArchiveDirs]
    /\ UNCHANGED <<archVars, mgrVars, cfgVars, runVars, last>>

\* GET /api/search?q=query&channel=channel_name&limit=limit
ApiSearch ==
    /\ last = NoCall
    /\ web.up
    /\ \E query \in Queries, channel_name \in ChannelFilters, limit \in SearchLimits :
          \E paths \in Orderings(Searched(fs, web.archive_dirs, channel_name)) :
              /\ IsListingOrder(paths, web.archive_dirs)
              /\ last' = [op |-> "search_messages", query |-> query, channel_name |-> channel_name,
                          limit |-> limit, paths |-> paths,
                          results |-> search_messages(fs, web.archive_dirs, query, channel_name,
                                                      limit, paths)]
    /\ UNCHANGED <<archVars, web, mgrVars, cfgVars, runVars>>

\* the archiver run with the settings of the shipped configuration
ArchiveForSearch == ArchiveChannelOf({"@news", "@qa"}, {1, 2}, {7}, {TRUE}, {"saved"}, {"none"})

NextSearch == ArchiveForSearch \/ Tick \/ StartWeb \/ ApiSearch \/ Return

SpecSearch == Init /\ [][NextSearch]_vars

SearchDone == last.op = "search_messages"

\* C1: search_messages returns at most `limit` results, for every query,
\* channel filter and limit that /api/search accepts (a list cannot hold
\* fewer than no results, so a negative limit is read as allowing none).
C1_AtMostLimit ==
    SearchDone => Len(last.results) <= (IF last.limit < 0 THEN 0 ELSE last.limit)

\* the text written under "### Content" of the section a result was built
\* from, as the result itself reports it
BodyHasQuery(result, query) == Contains(Lower(result.full_content), Lower(query))

\* C7: a section is returned as a hit only if its body text contains the
\* query ignoring case.
C7_HitsMatchBody ==
    SearchDone => \A k \in 1..Len(last.results) : BodyHasQuery(last.results[k], last.query)

(***************************************************************************)
(* C6: the highlighted snippet                                             *)
(***************************************************************************)
MarkOpen == "<mark>"

MarkClose == "</mark>"

RECURSIVE MarksWellFormed(_, _, _)
\* from index pos on, the tags of the snippet pair up, <mark> first, and each
\* pair encloses text equal to the query ignoring case
MarksWellFormed(snippet, query, pos) ==
    LET o == IndexFrom(snippet, MarkOpen, pos)
        c == IndexFrom(snippet, MarkClose, pos)
    IN  IF o = 0 THEN c = 0
        ELSE /\ c > o
             /\ Lower(SubSeq(snippet, o + Len(MarkOpen), c - 1)) = Lower(query)
             /\ MarksWellFormed(snippet, query, c + Len(MarkClose))

RECURSIVE Unmarked(_, _)
\* the snippet from index pos on with its mark tags removed
Unmarked(snippet, pos) ==
    LET o == IndexFrom(snippet, MarkOpen, pos)
        c == IndexFrom(snippet, MarkClose, pos)
        t == IF o = 0 THEN c ELSE IF c = 0 THEN o ELSE Min({o, c})
    IN  IF t = 0 THEN From(snippet, pos)
        ELSE SubSeq(snippet, pos, t - 1)
             \o Unmarked(snippet, t + (IF t = o THEN Len(MarkOpen) ELSE Len(MarkClose)))

\* the snippet shows the section's content, or the beginning of it and "..."
ShowsContent(shown, full_content) ==
    \/ shown = full_content
    \/ /\ EndsWith(shown, "...")
       /\ StartsWith(full_content, DropSuffix(shown, "..."))

\* C6: in the content snippet of every search result, truncated or not, each
\* <mark>...</mark> span is well formed and encloses text equal to the query
\* ignoring case, and removing the mark tags leaves the text unaltered.
C6_HighlightWrapsQuery ==
    SearchDone =>
        \A k \in 1..Len(last.results) :
            /\ MarksWellFormed(last.results[k].content, last.query, 1)
            /\ ShowsContent(Unmarked(last.results[k].content, 1), last.results[k].full_content)

(***************************************************************************)
(* ArchiveManager: start_archiving, stop_archiving and the worker thread   *)
(* _run_archiving_process.  The log texts are shortened and their emoji    *)
(* left out.  A worker's position (pc): "init", "spawn", "loop" (the while *)
(* test), "read" (in readline), "wait" (about to call wait), "waiting" (in *)
(* wait), "done".                                                          *)
(***************************************************************************)
MaxRuns == 2

MaxLines == 1

LogCap == 100

\* the lines a child prints that the monitor loop tells apart
ChildLines == {"Processing channel: News", "Total channels: 2", "Downloaded: msg_12.jpg"}

Log(st, entry) == [st EXCEPT !.logs = Append(@, entry)]

Alive(c) == children[c].state = "running"

ActiveWorkers == {w \in 1..Len(workers) : workers[w].pc /= "done"}

AliveChildren == {c \in 1..Len(children) : Alive(c)}

\* datetime.now().isoformat(), the fraction of the second left out
IsoFormat(t) == DateStr(t) \o "T" \o ClockStr(t, ":")

\* the reset of archiving_status in start_archiving
FreshStatus ==
    [running |-> TRUE, progress |-> 0, current_channel |-> "Initializing...", total_channels |-> 0,
     processed_channels |-> 0, start_time |-> IsoFormat(now), logs |-> <<"Starting archiving process...">>,
     error |-> None]

\* POST /api/archiving/start, with at most max_runs runs started
NotChecked(archiving_status) == FALSE

\* if self.archiving_status["running"]
AlreadyRunning(archiving_status) == archiving_status.running

StartArchivingOf(max_runs) ==
    /\ web.up
    /\ IF AlreadyRunning(status)
       THEN /\ last' = [op |-> "start_archiving", returned |-> "error"]
            /\ UNCHANGED <<status, workers>>
       ELSE /\ Len(workers) < max_runs
            /\ status' = FreshStatus
            /\ workers' = Append(workers, [pc |-> "init", on |-> 0])
            /\ last' = [op |-> "start_archiving", returned |-> "success"]
    /\ UNCHANGED <<archVars, cfgVars, runVars, web, archiving_process, children, stopper>>

StartArchiving == StartArchivingOf(MaxRuns)

\* `except Exception` and `finally` of _run_archiving_process
Fatal(w, message) ==
    /\ status' = [Log(status, "Fatal error: " \o message) EXCEPT !.error = message, !.running = FALSE]
    /\ archiving_process' = 0
    /\ workers' = [workers EXCEPT ![w].pc = "done"]

NoProcess == "'NoneType' object has no attribute"

\* the archiver script is looked up; the first two log lines
WorkerInit(w) ==
    /\ workers[w].pc = "init"
    /\ \/ /\ status' = Log(Log(status, "Using archiver script"), "Max file size")
          /\ workers' = [workers EXCEPT ![w].pc = "spawn"]
          /\ UNCHANGED archiving_process
       \/ Fatal(w, "Archiver script not found")
    /\ UNCHANGED <<archVars, cfgVars, runVars, web, children, stopper, last>>

\* subprocess.Popen
WorkerSpawn(w) ==
    /\ workers[w].pc = "spawn"
    /\ \/ /\ children' = Append(children, [state |-> "running", code |-> 0, printed |-> 0])
          /\ archiving_process' = Len(children) + 1
          /\ status' = Log(status, "Archiving process started")
          /\ workers' = [workers EXCEPT ![w].pc = "loop"]
       \/ /\ Fatal(w, "No such file or directory: 'python'")
          /\ UNCHANGED children
    /\ UNCHANGED <<archVars, cfgVars, runVars, web, stopper, last>>

\* while self.archiving_process.poll() is None and self.archiving_status["running"]
WorkerPoll(w) ==
    /\ workers[w].pc = "loop"
    /\ IF archiving_process = 0
       THEN Fatal(w, NoProcess)
       ELSE /\ workers' = [workers EXCEPT ![w].pc =
                              IF Alive(archiving_process) /\ status.running THEN "read" ELSE "wait"]
            /\ UNCHANGED <<status, archiving_process>>
    /\ UNCHANGED <<archVars, cfgVars, runVars, web, children, stopper, last>>

\* line.split(sep)[-1]: the text after the last occurrence of sep
AfterLast(line, sep) ==
    LET hits == {i \in 1..Len(line) : StartsAt(line, sep, i)}
    IN  IF hits = {} THEN line ELSE From(line, Max(hits) + Len(sep))

RECURSIVE DigitsValue(_)
DigitsValue(s) ==
    IF s = "" THEN 0
    ELSE 10 * DigitsValue(SubSeq(s, 1, Len(s) - 1))
            + (CHOOSE d \in 0..9 : DigitStr(d) = CharAt(s, Len(s)))

\* int(s) for the unsigned decimal numerals; -1 stands for ValueError
ParseInt(s) ==
    LET t == Strip(s)
    IN  IF t /= "" /\ \A i \in 1..Len(t) : CharAt(t, i) \in Digits THEN DigitsValue(t) ELSE -1

\* min(100, processed / total * 100); the whole part of the quotient is kept
Progress(st) ==
    IF st.total_channels > 0
    THEN [st EXCEPT !.progress = IF (st.processed_channels * 100) \div st.total_channels > 100 THEN 100
                                 ELSE (st.processed_channels * 100) \div st.total_channels]
    ELSE st

\* "Keep only last 100 log entries"
Trim(logs) == IF Len(logs) > LogCap THEN SubSeq(logs, Len(logs) - LogCap + 1, Len(logs)) ELSE logs

\* the body of the monitor loop for one non-empty line
Monitor(st, line) ==
    LET logged == Log(st, line)
        parsed ==
            IF Contains(line, "Processing channel:")
            THEN [logged EXCEPT !.current_channel = Strip(AfterLast(line, "Processing channel:")),
                                !.processed_channels = @ + 1]
            ELSE IF Contains(line, "Total channels:")
            THEN IF ParseInt(AfterLast(line, "Total channels:")) >= 0
                 THEN [logged EXCEPT !.total_channels = ParseInt(AfterLast(line, "Total channels:"))]
                 ELSE logged
            ELSE IF Contains(line, "Skipping large file") THEN Log(logged, "skipped: " \o line)
            ELSE IF Contains(line, "Downloaded:") THEN Log(logged, "got: " \o line)
            ELSE logged
        counted == Progress(parsed)
    IN  [counted EXCEPT !.logs = Trim(@)]

\* output = self.archiving_process.stdout.readline(): the call is made on
\* the process the attribute holds at this moment
WorkerRead(w) ==
    /\ workers[w].pc = "read"
    /\ IF archiving_process = 0
       THEN /\ status' = Log(status, "Error reading output: " \o NoProcess)
            /\ workers' = [workers EXCEPT ![w].pc = "wait"]
       ELSE /\ workers' = [workers EXCEPT ![w].pc = "reading", ![w].on = archiving_process]
            /\ UNCHANGED status
    /\ UNCHANGED <<archVars, cfgVars, runVars, web, archiving_process, children, stopper, last>>

\* readline returns a line of the child, or the end of its output once it
\* has exited; the rest of the loop body follows
WorkerLineOf(w, lines, max_lines) ==
    /\ workers[w].pc = "reading"
    /\ \/ /\ Alive(workers[w].on)
          /\ children[workers[w].on].printed < max_lines
          /\ \E line \in lines : status' = Monitor(status, line)
          /\ children' = [children EXCEPT ![workers[w].on].printed = @ + 1]
       \/ /\ ~Alive(workers[w].on)
          /\ UNCHANGED <<status, children>>
    /\ workers' = [workers EXCEPT ![w].pc = "loop"]
    /\ UNCHANGED <<archVars, cfgVars, runVars, web, archiving_process, stopper, last>>

WorkerLine(w) == WorkerLineOf(w, ChildLines, MaxLines)

\* return_code = self.archiving_process.wait(): the call is made
WorkerWait(w) ==
    /\ workers[w].pc = "wait"
    /\ IF archiving_process = 0
       THEN Fatal(w, NoProcess)
       ELSE /\ workers' = [workers EXCEPT ![w].pc = "waiting", ![w].on = archiving_process]
            /\ UNCHANGED <<status, archiving_process>>
    /\ UNCHANGED <<archVars, cfgVars, runVars, web, children, stopper, last>>

\* a worker that reports completion whatever the return code
CompletedWhatever(st, return_code) ==
    [Log(st, "Archiving completed successfully!") EXCEPT !.progress = 100, !.current_channel = "Completed"]

\* "Process finished": what the return code does to archiving_status
Finished(st, return_code) ==
    IF return_code = 0
    THEN [Log(st, "Archiving completed successfully!") EXCEPT !.progress = 100, !.current_channel = "Completed"]
    ELSE [Log(st, "Archiving failed with return code") EXCEPT !.error = "Process exited with code"]

\* wait() returns; the completion lines and `finally`
WorkerFinish(w) ==
    /\ workers[w].pc = "waiting"
    /\ ~Alive(workers[w].on)
    /\ status' = [Finished(status, children[workers[w].on].code) EXCEPT !.running = FALSE]
    /\ archiving_process' = 0
    /\ workers' = [workers EXCEPT ![w].pc = "done"]
    /\ UNCHANGED <<archVars, cfgVars, runVars, web, children, stopper, last>>

\* the child ends by itself, with return code 0 or 1
ChildExit(c) ==
    /\ Alive(c)
    /\ \E code \in {0, 1} : children' = [children EXCEPT ![c].state = "exited", ![c].code = code]
    /\ UNCHANGED <<archVars, cfgVars, runVars, web, status, archiving_process, workers, stopper, last>>

\* the end of stop_archiving: running = False, the log line, the answer
Stopped(st) == [Log(st, "Archiving stopped by user") EXCEPT !.running = FALSE]

\* POST /api/archiving/stop, up to time.sleep(2)
StopBegin ==
    /\ web.up
    /\ stopper.pc = "idle"
    /\ IF ~status.running
       THEN /\ last' = [op |-> "stop_archiving", returned |-> "error"]
            /\ UNCHANGED <<status, children, stopper>>
       ELSE IF archiving_process /= 0 /\ Alive(archiving_process)
       THEN /\ \/ children' = [children EXCEPT ![archiving_process].state = "exited",
                                               ![archiving_process].code = -15]
               \/ UNCHANGED children
            /\ stopper' = [pc |-> "sleeping"]
            /\ UNCHANGED <<status, last>>
       ELSE /\ status' = Stopped(status)
            /\ last' = [op |-> "stop_archiving", returned |-> "success"]
            /\ UNCHANGED <<children, stopper>>
    /\ UNCHANGED <<archVars, cfgVars, runVars, web, archiving_process, workers>>

\* stop_archiving after time.sleep(2)
StopEnd ==
    /\ stopper.pc = "sleeping"
    /\ stopper' = StopperIdle
    /\ IF archiving_process = 0
       THEN /\ last' = [op |-> "stop_archiving", returned |-> "error"]
            /\ UNCHANGED <<status, children>>
       ELSE /\ children' = IF Alive(archiving_process)
                           THEN [children EXCEPT ![archiving_process].state = "exited",
                                                 ![archiving_process].code = -9]
                           ELSE children
            /\ status' = Stopped(status)
            /\ last' = [op |-> "stop_archiving", returned |-> "success"]
    /\ UNCHANGED <<archVars, cfgVars, runVars, web, archiving_process, workers>>

NextManager ==
    \/ StartWeb
    \/ StartArchiving
    \/ \E w \in 1..Len(workers) : WorkerInit(w)
    \/ \E w \in 1..Len(workers) : WorkerSpawn(w)
    \/ \E w \in 1..Len(workers) : WorkerPoll(w)
    \/ \E w \in 1..Len(workers) : WorkerRead(w)
    \/ \E w \in 1..Len(workers) : WorkerLine(w)
    \/ \E w \in 1..Len(workers) : WorkerWait(w)
    \/ \E w \in 1..Len(workers) : WorkerFinish(w)
    \/ \E c \in 1..Len(children) : ChildExit(c)
    \/ StopBegin
    \/ StopEnd

SpecManager == Init /\ [][NextManager]_vars

\* C4: at most one background archiving worker thread is active and at most
\* one child archiver process is alive at any time.
C4_SingleWorker == Cardinality(ActiveWorkers) <= 1 /\ Cardinality(AliveChildren) <= 1

(***************************************************************************)
(* One run whose child prints many plain lines: the log reaches its cap.   *)
(***************************************************************************)
MaxLogLines == 97

PlainLines == {"Saved 2 messages"}

NextLogs ==
    \/ StartWeb
    \/ StartArchivingOf(1)
    \/ \E w \in 1..Len(workers) : WorkerInit(w)
    \/ \E w \in 1..Len(workers) : WorkerSpawn(w)
    \/ \E w \in 1..Len(workers) : WorkerPoll(w)
    \/ \E w \in 1..Len(workers) : WorkerRead(w)
    \/ \E w \in 1..Len(workers) : WorkerLineOf(w, PlainLines, MaxLogLines)
    \/ \E w \in 1..Len(workers) : WorkerWait(w)
    \/ \E w \in 1..Len(workers) : WorkerFinish(w)
    \/ \E c \in 1..Len(children) : ChildExit(c)
    \/ StopBegin
    \/ StopEnd

SpecLogs == Init /\ [][NextLogs]_vars

\* C5: in every reachable state archiving_status["logs"] holds at most 100
\* entries, however the run ends.
C5_LogsBounded == Len(status.logs) <= LogCap

(***************************************************************************)
(* Python values and their JSON text.  A value carries its type in t; a    *)
(* dict is the sequence of its <<key, value>> pairs in insertion order.    *)
(***************************************************************************)
PyNone == [t |-> "none", v |-> 0]

PyStr(s) == [t |-> "str", v |-> s]

PyBool(b) == [t |-> "bool", v |-> b]

PyInt(n) == [t |-> "int", v |-> n]

PyList(items) == [t |-> "list", v |-> items]

PyDict(items) == [t |-> "dict", v |-> items]

EmptyList == PyList(<<>>)

EmptyDict == PyDict(<<>>)

\* key in d
Has(d, key) == \E i \in 1..Len(d.v) : d.v[i][1] = key

\* d.get(key, default)
Get(d, key, default) ==
    IF Has(d, key) THEN d.v[CHOOSE i \in 1..Len(d.v) : d.v[i][1] = key][2] ELSE default

RECURSIVE Replace(_, _, _, _)
Replace(items, key, value, i) ==
    IF i > Len(items) THEN <<>>
    ELSE <<IF items[i][1] = key THEN <<key, value>> ELSE items[i]>> \o Replace(items, key, value, i + 1)

\* d[key] = value
Put(d, key, value) ==
    IF Has(d, key) THEN PyDict(Replace(d.v, key, value, 1)) ELSE PyDict(Append(d.v, <<key, value>>))

\* the character at i, "" past the end
Peek(text, i) == IF i >= 1 /\ i <= Len(text) THEN CharAt(text, i) ELSE ""

EscapeChar(c) ==
    CASE c = "\"" -> "\\\"" [] c = "\\" -> "\\\\" [] c = "\n" -> "\\n" [] c = "\t" -> "\\t"
      [] c = "\r" -> "\\r" [] OTHER -> c

RECURSIVE Escape(_)
Escape(s) == IF s = "" THEN "" ELSE EscapeChar(CharAt(s, 1)) \o Escape(From(s, 2))

Quote(s) == "\"" \o Escape(s) \o "\""

\* the line break and indentation json.dump(indent=2) puts before an item
Indent(level) == "\n" \o Repeat(" ", 2 * level)

RECURSIVE Dump(_, _)
RECURSIVE DumpItems(_, _, _)
RECURSIVE DumpMembers(_, _, _)
DumpItems(items, level, i) ==
    Indent(level) \o Dump(items[i], level)
        \o (IF i < Len(items) THEN "," \o DumpItems(items, level, i + 1) ELSE "")

DumpMembers(items, level, i) ==
    Indent(level) \o Quote(items[i][1]) \o ": " \o Dump(items[i][2], level)
        \o (IF i < Len(items) THEN "," \o DumpMembers(items, level, i + 1) ELSE "")

\* the text json.dump(value, f, indent=2, ensure_ascii=False) writes
Dump(value, level) ==
    CASE value.t = "none" -> "null"
      [] value.t = "bool" -> (IF value.v THEN "true" ELSE "false")
      [] value.t = "int" -> (IF value.v < 0 THEN "-" \o ToStr(-value.v) ELSE ToStr(value.v))
      [] value.t = "str" -> Quote(value.v)
      [] value.t = "list" ->
            (IF value.v = <<>> THEN "[]"
             ELSE "[" \o DumpItems(value.v, level + 1, 1) \o Indent(level) \o "]")
      [] value.t = "dict" ->
            (IF value.v = <<>> THEN "{}"
             ELSE "{" \o DumpMembers(value.v, level + 1, 1) \o Indent(level) \o "}")

json_dump(value) == Dump(value, 0)

Failed == [ok |-> FALSE, v |-> PyNone, next |-> 0]

Parsed(value, next) == [ok |-> TRUE, v |-> value, next |-> next]

RECURSIVE SkipSpace(_, _)
SkipSpace(text, i) == IF Peek(text, i) \in Whitespace THEN SkipSpace(text, i + 1) ELSE i

UnescapeChar(c) ==
    CASE c = "n" -> "\n" [] c = "t" -> "\t" [] c = "r" -> "\r" [] c = "\"" -> "\"" [] c = "\\" -> "\\"
      [] c = "/" -> "/" [] OTHER -> ""

RECURSIVE ScanString(_, _, _)
\* the characters of a string literal from i to its closing quote
ScanString(text, i, acc) ==
    LET c == Peek(text, i)
    IN  IF c = "" \/ c \in {"\n", "\t", "\r"} THEN Failed
        ELSE IF c = "\"" THEN Parsed(PyStr(acc), i + 1)
        ELSE IF c = "\\"
        THEN IF UnescapeChar(Peek(text, i + 1)) = "" THEN Failed
             ELSE ScanString(text, i + 2, acc \o UnescapeChar(Peek(text, i + 1)))
        ELSE ScanString(text, i + 1, acc \o c)

ParseNumber(text, i) ==
    LET first == IF Peek(text, i) = "-" THEN i + 1 ELSE i
        stop == RunEnd(text, first, Digits)
    IN  IF Peek(text, first) \notin Digits THEN Failed
        ELSE Parsed(PyInt(IF first = i THEN DigitsValue(SubSeq(text, first, stop))
                          ELSE -DigitsValue(SubSeq(text, first, stop))), stop + 1)

RECURSIVE ParseValue(_, _)
RECURSIVE ParseItems(_, _, _)
RECURSIVE ParseMembers(_, _, _)
\* an array after an item, acc holding the items read so far: a comma and
\* more items, or the bracket
ItemsAfter(text, item, acc) ==
    LET after == SkipSpace(text, item.next)
    IN  IF ~item.ok THEN Failed
        ELSE IF Peek(text, after) = "," THEN ParseItems(text, SkipSpace(text, after + 1), acc)
        ELSE IF Peek(text, after) = "]" THEN Parsed(PyList(acc), after + 1)
        ELSE Failed

\* the items of an array, the first of them at i (each item is parsed once)
ParseItems(text, i, acc) ==
    CHOOSE result \in
        {ItemsAfter(text, read[1], read[2]) :
            read \in {<<item, IF item.ok THEN Append(acc, item.v) ELSE acc>> : item \in {ParseValue(text, i)}}} : TRUE

\* an object after a member, acc holding the members read so far: a comma and
\* more members, or the brace
MembersAfter(text, member, acc) ==
    LET after == SkipSpace(text, member.next)
    IN  IF ~member.ok THEN Failed
        ELSE IF Peek(text, after) = "," THEN ParseMembers(text, SkipSpace(text, after + 1), acc)
        ELSE IF Peek(text, after) = "}" THEN Parsed(acc, after + 1)
        ELSE Failed

\* the value of the member whose key has been read
MemberValue(text, key) ==
    LET colon == SkipSpace(text, key.next)
    IN  IF key.ok /\ Peek(text, colon) = ":" THEN ParseValue(text, SkipSpace(text, colon + 1)) ELSE Failed

\* the members of an object, the first of them at i
ParseMembers(text, i, acc) ==
    CHOOSE result \in
        {MembersAfter(text, read[2], read[3]) :
            read \in {<<key, member, IF member.ok THEN Put(acc, key.v.v, member.v) ELSE acc>> :
                        <<key, member>> \in {<<k, MemberValue(text, k)>> :
                            k \in {IF Peek(text, i) = "\"" THEN ScanString(text, i + 1, "") ELSE Failed}}}} : TRUE

ParseValue(text, i) ==
    LET c == Peek(text, i)
    IN  IF c = "\"" THEN ScanString(text, i + 1, "")
        ELSE IF c = "{"
        THEN IF Peek(text, SkipSpace(text, i + 1)) = "}" THEN Parsed(EmptyDict, SkipSpace(text, i + 1) + 1)
             ELSE ParseMembers(text, SkipSpace(text, i + 1), EmptyDict)
        ELSE IF c = "["
        THEN IF Peek(text, SkipSpace(text, i + 1)) = "]" THEN Parsed(EmptyList, SkipSpace(text, i + 1) + 1)
             ELSE ParseItems(text, SkipSpace(text, i + 1), <<>>)
        ELSE IF StartsAt(text, "true", i) THEN Parsed(PyBool(TRUE), i + 4)
        ELSE IF StartsAt(text, "false", i) THEN Parsed(PyBool(FALSE), i + 5)
        ELSE IF StartsAt(text, "null", i) THEN Parsed(PyNone, i + 4)
        ELSE IF c = "-" \/ c \in Digits THEN ParseNumber(text, i)
        ELSE Failed

\* json.load(f) of a file holding `text`; not ok stands for JSONDecodeError
json_load(text) ==
    CHOOSE result \in {IF value.ok /\ SkipSpace(text, value.next) > Len(text) THEN value ELSE Failed :
                          value \in {ParseValue(text, SkipSpace(text, 1))}} : TRUE

(***************************************************************************)
(* The config endpoints.  Each handler is an operator on the request's     *)
(* data and the file as load_config finds it; it either answers at once or *)
(* goes on to save_config with its copy of the configuration.              *)
(***************************************************************************)
\* a loader that takes an unreadable file for an empty configuration
LoadOrEmpty(file) ==
    IF file.exists /\ json_load(file.text).ok THEN json_load(file.text) ELSE Parsed(EmptyDict, 0)

\* load_config(): {} when config.json does not exist
load_config(file) == IF file.exists THEN json_load(file.text) ELSE Parsed(EmptyDict, 0)

Failure(error) == [success |-> FALSE, error |-> error]

Success(message, payload) == [success |-> TRUE, message |-> message, payload |-> payload]

\* the handler answers without saving
Answer(response, loaded) == [returns |-> TRUE, response |-> response, loaded |-> loaded, config |-> PyNone]

\* the handler goes on to save_config(config)
Save(response, loaded, config) == [returns |-> FALSE, response |-> response, loaded |-> loaded, config |-> config]

Channel(identifier, name, enabled) ==
    PyDict(<< <<"identifier", PyStr(identifier)>>, <<"name", PyStr(name)>>, <<"enabled", enabled>> >>)

\* GET /api/channels
api_get_channels(loaded) ==
        IF ~loaded.ok THEN Failure("JSONDecodeError")
        ELSE [success |-> TRUE, channels |-> Get(loaded.v, "channels", EmptyList),
              archive_settings |-> Get(loaded.v, "archive_settings", EmptyDict)]

SameIdentifier(channels, identifier, name) ==
    \E i \in 1..Len(channels.v) : Get(channels.v[i], "identifier", PyNone) = PyStr(identifier)

\* "Check for duplicates": an entry with this identifier or with this name
IsDuplicate(channels, identifier, name) ==
    \E i \in 1..Len(channels.v) :
        \/ Get(channels.v[i], "identifier", PyNone) = PyStr(identifier)
        \/ Get(channels.v[i], "name", PyNone) = PyStr(name)

\* POST /api/channels
api_add_channel(data, loaded) ==
    LET identifier_in == Get(data, "identifier", PyStr(""))
        name_in == Get(data, "name", PyStr(""))
        enabled == Get(data, "enabled", PyBool(TRUE))
        identifier == Strip(identifier_in.v)
        name == Strip(name_in.v)
        channels == Get(loaded.v, "channels", EmptyList)
        new_channel == Channel(identifier, name, enabled)
    IN  IF identifier_in.t /= "str" \/ name_in.t /= "str" THEN Answer(Failure("AttributeError"), PyNone)
        ELSE IF identifier = "" \/ name = ""
        THEN Answer(Failure("Identifier and name are required"), PyNone)
        ELSE IF ~(StartsWith(identifier, "https://t.me/") \/ StartsWith(identifier, "@"))
        THEN Answer(Failure("Invalid Telegram channel format"), PyNone)
        ELSE IF ~loaded.ok THEN Answer(Failure("JSONDecodeError"), PyNone)
        ELSE IF IsDuplicate(channels, identifier, name)
        THEN Answer(Failure("Channel already exists"), loaded.v)
        ELSE Save(Success("Channel added successfully", new_channel), loaded.v,
                  Put(loaded.v, "channels", PyList(Append(channels.v, new_channel))))

StrippedOrBlank(channel, data, key) ==
    Put(channel, key, PyStr(IF Has(data, key) THEN Strip(Get(data, key, PyNone).v) ELSE ""))

\* channel[key] = data[key].strip() where data has the key
Stripped(channel, data, key) ==
    IF Has(data, key) THEN Put(channel, key, PyStr(Strip(Get(data, key, PyNone).v))) ELSE channel

\* PUT /api/channels/<channel_index>
api_update_channel(channel_index, data, loaded) ==
    LET channels == Get(loaded.v, "channels", EmptyList)
        old == channels.v[channel_index + 1]
        renamed == Stripped(Stripped(old, data, "identifier"), data, "name")
        updated == IF Has(data, "enabled") THEN Put(renamed, "enabled", Get(data, "enabled", PyNone)) ELSE renamed
    IN  IF ~loaded.ok THEN Answer(Failure("JSONDecodeError"), PyNone)
        ELSE IF channel_index < 0 \/ channel_index >= Len(channels.v)
        THEN Answer(Failure("Channel not found"), loaded.v)
        ELSE IF \E key \in {"identifier", "name"} : Has(data, key) /\ Get(data, key, PyNone).t /= "str"
        THEN Answer(Failure("AttributeError"), loaded.v)
        ELSE Save(Success("Channel updated successfully", updated), loaded.v,
                  Put(loaded.v, "channels",
                      PyList(SubSeq(channels.v, 1, channel_index) \o <<updated>>
                                \o SubSeq(channels.v, channel_index + 2, Len(channels.v)))))

\* channels.pop(), whatever the index
PopLast(items, i) == SubSeq(items, 1, Len(items) - 1)

\* channels.pop(i), for an index inside the list
Pop(items, i) == SubSeq(items, 1, i) \o SubSeq(items, i + 2, Len(items))

\* DELETE /api/channels/<channel_index>
api_delete_channel(channel_index, loaded) ==
    LET channels == Get(loaded.v, "channels", EmptyList)
    IN  IF ~loaded.ok THEN Answer(Failure("JSONDecodeError"), PyNone)
        ELSE IF channel_index < 0 \/ channel_index >= Len(channels.v)
        THEN Answer(Failure("Channel not found"), loaded.v)
        ELSE Save(Success("Channel deleted successfully", channels.v[channel_index + 1]), loaded.v,
                  Put(loaded.v, "channels", PyList(Pop(channels.v, channel_index))))

\* int(x) of an int or of a string; none stands for ValueError or TypeError
ToInt(x) ==
    IF x.t = "int" THEN x
    ELSE IF x.t = "bool" THEN PyInt(IF x.v THEN 1 ELSE 0)
    ELSE IF x.t = "str" /\ ParseInt(x.v) >= 0 THEN PyInt(ParseInt(x.v))
    ELSE PyNone

\* bool(x)
Truth(x) ==
    CASE x.t = "bool" -> x.v [] x.t = "int" -> x.v /= 0 [] x.t = "str" -> x.v /= ""
      [] x.t = "none" -> FALSE [] OTHER -> x.v /= <<>>

\* GET /api/settings
api_get_settings(loaded) ==
        IF ~loaded.ok THEN Failure("JSONDecodeError")
        ELSE [success |-> TRUE, settings |-> Get(loaded.v, "archive_settings", EmptyDict)]

NoSettings(config) == EmptyDict

\* archive_settings = config.get("archive_settings", {})
CurrentSettings(config) == Get(config, "archive_settings", EmptyDict)

\* POST /api/settings
api_update_settings(data, loaded) ==
    LET s0 == CurrentSettings(loaded.v)
        s1 == IF Has(data, "messages_per_channel")
              THEN Put(s0, "messages_per_channel", ToInt(Get(data, "messages_per_channel", PyNone))) ELSE s0
        s2 == IF Has(data, "days_back") THEN Put(s1, "days_back", ToInt(Get(data, "days_back", PyNone))) ELSE s1
        s3 == IF Has(data, "output_directory")
              THEN Put(s2, "output_directory", PyStr(Strip(Get(data, "output_directory", PyNone).v))) ELSE s2
        archive_settings ==
              IF Has(data, "download_media")
              THEN Put(s3, "download_media", PyBool(Truth(Get(data, "download_media", PyNone)))) ELSE s3
    IN  IF ~loaded.ok THEN Answer(Failure("JSONDecodeError"), PyNone)
        ELSE IF \E key \in {"messages_per_channel", "days_back"} :
                    Has(data, key) /\ ToInt(Get(data, key, PyNone)) = PyNone
        THEN Answer(Failure("ValueError"), loaded.v)
        ELSE IF Has(data, "output_directory") /\ Get(data, "output_directory", PyNone).t /= "str"
        THEN Answer(Failure("AttributeError"), loaded.v)
        ELSE Save(Success("Settings updated successfully", archive_settings), loaded.v,
                  Put(loaded.v, "archive_settings", archive_settings))

\* the answer to a URL that no route matches: an error page, no JSON
NotFound == [status |-> 404]

\* '/api/channels/<int:channel_index>': the int converter takes digits only,
\* so no route matches an index with a minus sign
IntConverts(channel_index) == channel_index >= 0

\* the route of a request, `loaded` being what its load_config() gives
Route(input, loaded) ==
    CASE input.op = "api_get_channels" -> Answer(api_get_channels(loaded), PyNone)
      [] input.op \in {"api_update_channel", "api_delete_channel"} /\ ~IntConverts(input.index)
            -> Answer(NotFound, PyNone)
      [] input.op = "api_add_channel" -> api_add_channel(input.data, loaded)
      [] input.op = "api_update_channel" -> api_update_channel(input.index, input.data, loaded)
      [] input.op = "api_delete_channel" -> api_delete_channel(input.index, loaded)
      [] input.op = "api_get_settings" -> Answer(api_get_settings(loaded), PyNone)
      [] input.op = "api_update_settings" -> api_update_settings(input.data, loaded)

\* a write that leaves alone what another writer has put in the file
WrittenFirstWins(content, text) == IF content = "" THEN text ELSE content

\* what a write of `text` from offset 0 leaves in a file that holds `content`
Written(content, text) == text \o From(content, Len(text) + 1)

\* a request arrives and runs up to its answer or up to save_config
BeginOf(inputs, max_requests, max_in_flight) ==
    /\ web.up
    /\ last = NoCall
    /\ Len(requests) < max_requests
    /\ Cardinality({r \in 1..Len(requests) : requests[r].pc /= "done"}) < max_in_flight
    /\ \E input \in inputs : \E loaded \in {load_config(config_json)} :
          \E handled \in {Route(input, loaded)} :
             \E request \in {[op |-> input.op, index |-> input.index, data |-> input.data,
                               pc |-> IF handled.returns THEN "done" ELSE "save",
                               loaded |-> handled.loaded, config |-> handled.config,
                               response |-> handled.response, loaded_at |-> writes, wrote_at |-> 0]} :
                /\ requests' = Append(requests, request)
                /\ last' = IF handled.returns THEN request ELSE last
    /\ UNCHANGED <<archVars, web, mgrVars, runVars, config_json, writes>>

\* save_config: open(config_path, 'w') creates or empties the file
SaveOpen(r) ==
    /\ requests[r].pc = "save"
    /\ config_json' = [exists |-> TRUE, text |-> ""]
    /\ requests' = [requests EXCEPT ![r].pc = "dump"]
    /\ UNCHANGED <<archVars, web, mgrVars, runVars, writes, last>>

\* save_config: json.dump and the close of the file; the handler answers
SaveDump(r) ==
    /\ requests[r].pc = "dump"
    /\ config_json' = [exists |-> TRUE, text |-> Written(config_json.text, json_dump(requests[r].config))]
    /\ writes' = writes + 1
    /\ requests' = [requests EXCEPT ![r].pc = "done", ![r].wrote_at = writes + 1]
    /\ last' = requests'[r]
    /\ UNCHANGED <<archVars, web, mgrVars, runVars>>

(***************************************************************************)
(* The channel endpoints called one at a time                              *)
(***************************************************************************)
MaxSeqRequests == 3

\* a config.json as the archiver needs it
ShippedConfig ==
    PyDict(<< <<"api_credentials", PyDict(<< <<"api_id", PyInt(12345)>> >>)>>,
              <<"channels", PyList(<<Channel("@news", "News", PyBool(TRUE))>>)>>,
              <<"archive_settings", PyDict(<< <<"days_back", PyInt(7)>>, <<"download_media", PyBool(TRUE)>> >>)>> >>)

InitConfig ==
    /\ ArchInit /\ WebInit /\ MgrInit /\ RunInit /\ last = NoCall
    /\ config_json \in {NoFile, [exists |-> TRUE, text |-> json_dump(ShippedConfig)]}
    /\ requests = <<>>
    /\ writes = 0

Request(op, index, data) == [op |-> op, index |-> index, data |-> PyDict(data)]

AddData(identifier, name, enabled) ==
    << <<"identifier", PyStr(identifier)>>, <<"name", PyStr(name)>>, <<"enabled", PyBool(enabled)>> >>

Indexes == {0, 1, 5}

Changes ==
    {<<0, << <<"name", PyStr(" Z ")>> >> >>,
     <<1, << <<"identifier", PyStr("@z ")>>, <<"enabled", PyBool(FALSE)>> >> >>,
     <<1, << <<"name", PyStr("News")>> >> >>,
     <<5, << <<"name", PyStr("Z")>> >> >>}

ChannelInputs ==
    {Request("api_get_channels", 0, <<>>)}
    \cup {Request("api_add_channel", 0, data) :
            data \in {AddData(" @a", "A ", TRUE), AddData("@b", "B", FALSE), AddData("b", "B", TRUE)}}
    \cup {Request("api_update_channel", change[1], change[2]) : change \in Changes}
    \cup {Request("api_delete_channel", i, <<>>) : i \in Indexes}

BeginChannels == BeginOf(ChannelInputs, MaxSeqRequests, 1)

NextChannels ==
    \/ StartWeb
    \/ BeginChannels
    \/ \E r \in 1..Len(requests) : SaveOpen(r)
    \/ \E r \in 1..Len(requests) : SaveDump(r)
    \/ Return

SpecChannels == InitConfig /\ [][NextChannels]_vars

\* what a get-all answers now
GetAllNow == api_get_channels(load_config(config_json)).channels.v

\* what a get-all answered when the request loaded the configuration
Previous(request) == Get(request.loaded, "channels", EmptyList).v

Succeeded(op) == last.op = op /\ last.response.success

SetAt(items, i, value) == SubSeq(items, 1, i) \o <<value>> \o SubSeq(items, i + 2, Len(items))

RECURSIVE Carrying(_, _, _, _)
\* the entry with the supplied fields set, identifier and name as given (or
\* without their surrounding whitespace)
Carrying(entry, data, strip, i) ==
    IF i > Len(data.v) THEN entry
    ELSE LET key == data.v[i][1]
             given == data.v[i][2]
         IN  Carrying(Put(entry, key, IF strip /\ given.t = "str" THEN PyStr(Strip(given.v)) ELSE given),
                      data, strip, i + 1)

C3_Relations(strip) ==
    \A GetAll \in {IF last.op = "none" THEN <<>> ELSE GetAllNow} :
    /\ Succeeded("api_add_channel") =>
          GetAll = Append(Previous(last), Carrying(EmptyDict, last.data, strip, 1))
    /\ Succeeded("api_update_channel") =>
          GetAll = SetAt(Previous(last), last.index,
                         Carrying(Previous(last)[last.index + 1], last.data, strip, 1))
    /\ Succeeded("api_delete_channel") =>
          /\ Len(GetAll) = Len(Previous(last)) - 1
          /\ \A j \in 1..Len(GetAll) :
                GetAll[j] = Previous(last)[IF j - 1 < last.index THEN j ELSE j + 1]

\* C3 as stated: with one request at a time, a successful add appends exactly
\* the supplied (identifier, name, enabled), a successful update leaves entry
\* i carrying the supplied values, a successful delete removes entry i and
\* keeps the rest in order.
C3_AsSupplied == C3_Relations(FALSE)

\* C3: with one request at a time, a successful add appends the supplied
\* entry, a successful update leaves entry i carrying the supplied values,
\* identifier and name without their surrounding whitespace in both, and a
\* successful delete removes entry i and keeps the rest in order.
C3_RoundTrip == C3_Relations(TRUE)

\* a delete at index 0 has shifted an entry that was added, with whitespace
\* around its fields, to the front
C3_Witness ==
    /\ Succeeded("api_delete_channel")
    /\ last.index = 0
    /\ GetAllNow = <<Channel("@a", "A", PyBool(TRUE))>>
    /\ \E r \in 1..Len(requests) :
          requests[r].op = "api_add_channel" /\ requests[r].data = PyDict(AddData(" @a", "A ", TRUE))

(***************************************************************************)
(* The config endpoints called concurrently                                *)
(***************************************************************************)
MaxRequests == 2

RaceInputs ==
    {Request("api_add_channel", 0, AddData("@a", "A", TRUE)),
     Request("api_add_channel", 0, AddData("@b", "B", TRUE)),
     Request("api_update_settings", 0, << <<"days_back", PyInt(30)>> >>),
     Request("api_delete_channel", 0, <<>>)}

BeginRace == BeginOf(RaceInputs, MaxRequests, MaxRequests)

NextConfig ==
    \/ StartWeb
    \/ BeginRace
    \/ \E r \in 1..Len(requests) : SaveOpen(r)
    \/ \E r \in 1..Len(requests) : SaveDump(r)
    \/ Return

SpecConfig == InitConfig /\ [][NextConfig]_vars

\* the request has answered success after writing config.json
Wrote(r) == requests[r].pc = "done" /\ requests[r].wrote_at > 0 /\ requests[r].response.success

\* the configuration shows the change the request made
Carries(config, request) ==
    IF request.op = "api_add_channel"
    THEN \E i \in 1..Len(Get(config, "channels", EmptyList).v) :
            Get(config, "channels", EmptyList).v[i] = request.response.payload
    ELSE Get(config, "archive_settings", EmptyDict) = request.response.payload

\* a and b both loaded the configuration before the other wrote it, a wrote
\* first and b's write is the latest
Raced(a, b) ==
    /\ a /= b /\ Wrote(a) /\ Wrote(b)
    /\ requests[a].op \in {"api_add_channel", "api_update_settings"}
    /\ requests[a].wrote_at < requests[b].wrote_at
    /\ requests[b].wrote_at = writes
    /\ requests[b].loaded_at < requests[a].wrote_at
    /\ ~Carries(requests[b].config, requests[a])

\* C2: nothing orders the load-modify-save of two requests: when both have
\* loaded the configuration before either wrote and both answer success, the
\* later write replaces the earlier one and the earlier request's change is
\* absent from config.json.
C2_LostUpdate ==
    \A a, b \in 1..Len(requests) :
        Raced(a, b) =>
            \A stored \in {load_config(config_json)} : stored.ok => ~Carries(stored.v, requests[a])

\* an add-channel and another request have both answered success, and the
\* added channel is not in config.json
C2_Witness ==
    \E a, b \in 1..Len(requests) :
        /\ Raced(a, b)
        /\ requests[a].op = "api_add_channel"
        /\ requests[b].op \in {"api_add_channel", "api_update_settings"}
        /\ config_json.exists
        /\ \E stored \in {load_config(config_json)} :
              stored.ok /\ ~Carries(stored.v, requests[a]) /\ Carries(stored.v, requests[b])

(***************************************************************************)
(* TelegramMonitor: the live archive                                       *)
(***************************************************************************)
LiveDir == "live_archive"

LiveFileName(safe_channel_name, t) == safe_channel_name \o "_" \o DateStr(t) \o "_live.md"

LiveHeader(channel_name, t) ==
    "# " \o channel_name \o " - Live Archive\n\n"
    \o "**Date:** " \o DateStr(t) \o "\n"
    \o "**Real-time monitoring started:** " \o Timestamp(t) \o "\n\n"
    \o "---\n\n"

AppendAlwaysHeaded(files, log_file, header, markdown_content) ==
    Write(files, log_file,
          (IF log_file \in DOMAIN files THEN files[log_file] ELSE "") \o header \o markdown_content)

\* open(log_file, 'a'): the header goes in only when the file did not exist
AppendLive(files, log_file, header, markdown_content) ==
    LET is_new_file == log_file \notin DOMAIN files
    IN  Write(files, log_file,
              IF is_new_file THEN header \o markdown_content ELSE files[log_file] \o markdown_content)

LogFile(channel_name, t) ==
    <<LiveDir, sanitize_filename(channel_name), LiveFileName(sanitize_filename(channel_name), t)>>

\* save_single_message from the daily log file on, at clock t: nothing in
\* this stretch awaits, so it runs without another handler in between
SaveSection(files, t, message, channel_name, media_path) ==
    AppendLive(files, LogFile(channel_name, t), LiveHeader(channel_name, t),
               format_message_as_markdown(message, channel_name, media_path))

MaxSaves == 2

\* TelegramMonitor.__init__
MonitorInit ==
    /\ monitor.pc = "none"
    /\ \E download_media \in BOOLEAN :
          monitor' = [pc |-> "new", monitored_channels |-> <<>>, running |-> FALSE,
                      download_media |-> download_media, channels |-> <<>>, i |-> 0,
                      registered |-> {}, events |-> <<>>]
    /\ roots' = roots \cup {OutputDir, LiveDir}
    /\ UNCHANGED <<fs, now, nArch, nDown, web, mgrVars, cfgVars, handlers, batch, control, last>>

\* a handler that reached the end of save_single_message
Saved(handler, t, media_path) ==
    [handler EXCEPT !.pc = "done", !.log_file = LogFile(handler.channel_name, t), !.at = t,
                    !.media_path = media_path]

\* save_single_message(message, channel_name) up to its first await: the
\* download when the message has media and downloads are on, and otherwise
\* the end of the function.  `event` is the event the call is made for, 0
\* for none.
SaveBegins(message, channel_name, outcome, event) ==
    \E handler \in {[message |-> message, channel_name |-> channel_name, pc |-> "download",
                     outcome |-> outcome, log_file |-> <<>>, at |-> 0, media_path |-> None,
                     order |-> 0, event |-> event]} :
       IF message.media.kind /= "none" /\ monitor.download_media
       THEN /\ handlers' = Append(handlers, handler)
            /\ fs' = fs
       ELSE /\ outcome = "nothing"    \* no download: its outcome plays no part
            /\ handlers' = Append(handlers,
                                  [Saved(handler, now, None) EXCEPT
                                      !.order = Cardinality({h \in DOMAIN handlers :
                                                              handlers[h].pc = "done"}) + 1])
            /\ fs' = SaveSection(fs, now, message, channel_name, None)

SaveCallOf(messages, names, outcomes, max_saves) ==
    /\ monitor.pc /= "none"
    /\ Len(handlers) < max_saves
    /\ \E message \in messages, channel_name \in names, outcome \in outcomes :
          SaveBegins(message, channel_name, outcome, 0)
    /\ UNCHANGED <<now, nArch, nDown, roots, web, mgrVars, cfgVars, monitor, batch, control, last>>

\* the download of handler h is over and the handler runs to its end
SaveResume ==
    \E h \in DOMAIN handlers :
        /\ handlers[h].pc = "download"
        /\ \E handler \in {handlers[h]} :
           \E d \in {download_media_file(handler.message, handler.message.id, monitor.download_media,
                                         handler.outcome)} :
           \E stored \in {IF d.stored = None THEN fs
                          ELSE Write(fs, <<LiveDir, sanitize_filename(handler.channel_name),
                                           "media/" \o d.stored>>,
                                     "media of " \o handler.channel_name \o " message "
                                     \o ToStr(handler.message.id))} :
              /\ fs' = SaveSection(stored, now, handler.message, handler.channel_name, d.returned)
              /\ handlers' = [handlers EXCEPT ![h] =
                                [Saved(handler, now, d.returned) EXCEPT
                                    !.order = Cardinality({k \in DOMAIN handlers :
                                                            handlers[k].pc = "done"}) + 1]]
        /\ UNCHANGED <<now, nArch, nDown, roots, web, mgrVars, cfgVars, monitor, batch, control, last>>

LiveMessages == {NewsHistory[1], QaHistory[2]}

LiveNames == {"News", "Q?A", "Q:A"}

SaveCall == SaveCallOf(LiveMessages, LiveNames, {"saved", "nothing"}, MaxSaves)

NextLive == MonitorInit \/ SaveCall \/ SaveResume \/ Tick

SpecLive == Init /\ [][NextLive]_vars

IsLiveFile(p) == p[1] = LiveDir /\ EndsWith(p[3], "_live.md") /\ ~StartsWith(p[3], "media/")

\* the handlers that wrote into log_file, in the order they wrote
Writers(log_file) == {h \in DOMAIN handlers : handlers[h].pc = "done" /\ handlers[h].log_file = log_file}

RECURSIVE SectionsOf(_)
\* the sections of the writers hs, in the order they were written
SectionsOf(hs) ==
    IF hs = {} THEN ""
    ELSE LET h == CHOOSE x \in hs : \A y \in hs : handlers[x].order <= handlers[y].order
         IN  format_message_as_markdown(handlers[h].message, handlers[h].channel_name,
                                        handlers[h].media_path)
             \o SectionsOf(hs \ {h})

\* C11: every daily live file holds its header exactly once, written by the
\* first save_single_message that targets the file and ahead of every message
\* section, however the handlers interleave: the file is the header of its
\* first writer followed by one section for each writer, in writing order.
C11_HeaderOnce ==
    \A p \in DOMAIN fs :
        IsLiveFile(p) =>
            \E hs \in {Writers(p)} :
                /\ hs /= {}
                /\ \E first \in hs :
                      /\ \A h \in hs : handlers[first].order <= handlers[h].order
                      /\ fs[p] = LiveHeader(handlers[first].channel_name, handlers[first].at)
                                 \o SectionsOf(hs)

\* two handlers wrote into one file in the opposite order of their start,
\* the later one of them into a file that was there already
C11_Witness ==
    \E h1, h2 \in DOMAIN handlers :
        /\ h1 < h2
        /\ handlers[h1].pc = "done" /\ handlers[h2].pc = "done"
        /\ handlers[h1].log_file = handlers[h2].log_file
        /\ handlers[h1].order > handlers[h2].order
        /\ handlers[h1].channel_name /= handlers[h2].channel_name

(***************************************************************************)
(* The batch files and their metadata                                      *)
(***************************************************************************)
Sidecar(p) == <<p[1], p[2], DropSuffix(p[3], ".md") \o "_metadata.json">>

\* C12: whenever archive_channel_messages has returned, with True or with
\* False, every batch file it created has its _metadata.json sidecar.
C12_SidecarForEveryBatch ==
    last.op = "archive_channel_messages" =>
        \A p \in DOMAIN fs : IsBatchFile(p) => Sidecar(p) \in DOMAIN fs

(***************************************************************************)
(* TelegramArchiver.archive_multiple_channels                              *)
(***************************************************************************)
MaxChannels == 3

RECURSIVE ListsOver(_, _)
\* the lists of at most n of the given identifiers
ListsOver(identifiers, n) ==
    IF n = 0 THEN {<<>>}
    ELSE {<<>>} \cup {<<c>> \o rest : c \in identifiers, rest \in ListsOver(identifiers, n - 1)}

ChannelLists == ListsOver({"@gone", "@news", "@qa"}, MaxChannels)

AdvanceWhileSuccess(i, success, n) == IF success THEN i + 1 ELSE n + 1

\* for channel in channels: the next channel, whatever the last one returned
Advance(i, success, n) == i + 1

\* results[channel] = success
Record(results, channel, success) ==
    [c \in DOMAIN results \cup {channel} |-> IF c = channel THEN success ELSE results[c]]

\* archive_multiple_channels(channels, limit, days_back) is called
BatchStart ==
    /\ batch.pc = "none"
    /\ \E channels \in ChannelLists :
          batch' = [pc |-> "loop", channels |-> channels, i |-> 1, attempts |-> <<>>,
                    results |-> <<>>, limit |-> 1, days_back |-> 7]
    /\ roots' = roots \cup {OutputDir}
    /\ UNCHANGED <<fs, now, nArch, nDown, web, mgrVars, cfgVars, monitor, handlers, control, last>>

\* one iteration of the loop: the call of archive_channel_messages and the
\* entry in results
BatchStep ==
    /\ batch.pc = "loop"
    /\ batch.i <= Len(batch.channels)
    /\ \E fault \in {"none", "message 1", "metadata"} :
       \E channel \in {batch.channels[batch.i]} :
       \E r \in {archive_channel_messages(fs, now, channel, batch.limit, batch.days_back, TRUE,
                                          "saved", fault)} :
          /\ fs' = r.files
          /\ batch' = [batch EXCEPT
                          !.attempts = Append(@, [channel |-> channel, success |-> r.returned,
                                                  filepath |-> r.filepath]),
                          !.results = Record(@, channel, r.returned),
                          !.i = Advance(@, r.returned, Len(batch.channels))]
    /\ UNCHANGED <<now, nArch, nDown, roots, web, mgrVars, cfgVars, monitor, handlers, control, last>>

\* the loop is over: the summary is printed and the call returns
BatchEnd ==
    /\ batch.pc = "loop"
    /\ batch.i > Len(batch.channels)
    /\ batch' = [batch EXCEPT !.pc = "done"]
    /\ UNCHANGED <<archVars, web, mgrVars, cfgVars, monitor, handlers, control, last>>

NextBatch == BatchStart \/ BatchStep \/ BatchEnd \/ Tick

SpecBatch == Init /\ [][NextBatch]_vars

\* the last attempt made for the channel
LastAttempt(channel) ==
    batch.attempts[Max({k \in DOMAIN batch.attempts : batch.attempts[k].channel = channel})]

\* C13: archive_multiple_channels attempts every channel of its list exactly
\* once, in list order: a failing channel yields False for that channel and
\* never keeps the remaining channels from being attempted.
C13_EveryChannelAttempted ==
    batch.pc /= "none" =>
        /\ Len(batch.attempts) <= Len(batch.channels)
        /\ \A k \in DOMAIN batch.attempts : batch.attempts[k].channel = batch.channels[k]
        /\ batch.pc = "loop" => batch.i = Len(batch.attempts) + 1
        /\ batch.pc = "done" => Len(batch.attempts) = Len(batch.channels)
        /\ DOMAIN batch.results = {batch.attempts[k].channel : k \in DOMAIN batch.attempts}
        /\ \A channel \in DOMAIN batch.results : batch.results[channel] = LastAttempt(channel).success

\* a run is over in which a channel failed, once at get_entity and once
\* after its batch file was opened, and a later channel was archived
C13_Witness ==
    /\ batch.pc = "done"
    /\ \E j, k, l \in DOMAIN batch.attempts :
          /\ j < l /\ k < l
          /\ ~batch.attempts[j].success /\ batch.attempts[j].filepath = <<>>
          /\ ~batch.attempts[k].success /\ batch.attempts[k].filepath /= <<>>
          /\ batch.attempts[l].success /\ batch.attempts[l].filepath \in DOMAIN fs
          /\ ~batch.results[batch.attempts[j].channel]

(***************************************************************************)
(* What an unfiltered search looks at                                      *)
(***************************************************************************)
\* the *.md files of the channel directories under the two archive
\* directories, as the tree holds them
ArchivedFiles(files) ==
    {p \in DOMAIN files :
        /\ \E k \in 1..Len(DefaultArchiveDirs) : DefaultArchiveDirs[k] = p[1]
        /\ IsMarkdownOf(p, p[1], p[2])}

\* C14: an unfiltered search scans all channel directories that exist at
\* query time: while the limit is not reached, every message section of every
\* *.md file under archived_channels/ or live_archive/ that contains the
\* query is among the results.
C14_AllSectionsExamined ==
    (SearchDone /\ last.channel_name = None /\ ~LimitReached(last.results, last.limit)) =>
        \A p \in ArchivedFiles(fs) :
            \E messages \in {SplitMessages(fs[p])} :
                \A i \in 1..Len(messages) :
                    IsHit(last.query, messages[i]) =>
                        \E k \in 1..Len(last.results) :
                            last.results[k] = SearchResult(last.query, p[2], p[3], messages[i], i - 1)

(***************************************************************************)
(* Adding a channel that is there already                                  *)
(***************************************************************************)
AddInputs ==
    {Request("api_add_channel", 0, data) :
        data \in {AddData(" @a", "A ", TRUE), AddData("@c", " A", FALSE), AddData("@a ", "C", TRUE),
                  AddData("a", "A", TRUE), AddData(" ", "News", TRUE)}}
    \cup {Request("api_delete_channel", 0, <<>>)}

BeginAdd == BeginOf(AddInputs, MaxSeqRequests, 1)

NextAdd ==
    \/ StartWeb
    \/ BeginAdd
    \/ \E r \in 1..Len(requests) : SaveOpen(r)
    \/ \E r \in 1..Len(requests) : SaveDump(r)
    \/ Return

SpecAdd == InitConfig /\ [][NextAdd]_vars

\* the text field of a request body, stripped
StrippedField(data, key) == Strip(Get(data, key, PyStr("")).v)

\* the request's stripped identifier or stripped name is that of an entry
\* of the configuration in the file
RepeatsAnEntry(file, data) ==
    \E loaded \in {load_config(file)} :
        /\ loaded.ok
        /\ \E channels \in {Get(loaded.v, "channels", EmptyList).v} :
              \E i \in 1..Len(channels) :
                  \/ Get(channels[i], "identifier", PyNone) = PyStr(StrippedField(data, "identifier"))
                  \/ Get(channels[i], "name", PyNone) = PyStr(StrippedField(data, "name"))

\* the checks that come ahead of the duplicate check
PassesValidation(data) ==
    /\ StrippedField(data, "identifier") /= "" /\ StrippedField(data, "name") /= ""
    /\ \/ StartsWith(StrippedField(data, "identifier"), "https://t.me/")
       \/ StartsWith(StrippedField(data, "identifier"), "@")

\* an add-channel request arrives in this step
AddArrives == Len(requests') = Len(requests) + 1 /\ requests'[Len(requests')].op = "api_add_channel"

Refused(request, error) ==
    /\ request.pc = "done"
    /\ request.response = Failure(error)
    /\ config_json' = config_json

\* C15 as stated: an add-channel request whose stripped identifier or
\* stripped name is that of an existing entry is answered with success=false,
\* "Channel already exists", and leaves config.json unchanged.
C15_AsStated ==
    [][(AddArrives /\ RepeatsAnEntry(config_json, requests'[Len(requests')].data))
          => Refused(requests'[Len(requests')], "Channel already exists")]_vars

\* C15: an add-channel request that passes the validation of its fields and
\* whose stripped identifier or stripped name is that of an existing entry is
\* answered with success=false, "Channel already exists", and leaves
\* config.json unchanged; one that fails the validation is answered with
\* success=false and the validation's error, config.json unchanged as well.
C15_DuplicateRefused ==
    [][(AddArrives /\ RepeatsAnEntry(config_json, requests'[Len(requests')].data))
          => IF PassesValidation(requests'[Len(requests')].data)
             THEN Refused(requests'[Len(requests')], "Channel already exists")
             ELSE \/ Refused(requests'[Len(requests')], "Identifier and name are required")
                  \/ Refused(requests'[Len(requests')], "Invalid Telegram channel format")]_vars

\* an add was refused for its name alone: the entry ("@a", "A") was added
\* and the file still holds it when ("@c", " A") is answered
C15_Witness ==
    /\ last.op = "api_add_channel"
    /\ last.data = PyDict(AddData("@c", " A", FALSE))
    /\ last.response = Failure("Channel already exists")
    /\ \E loaded \in {load_config(config_json)} :
          /\ loaded.ok
          /\ \E channels \in {Get(loaded.v, "channels", EmptyList).v} :
                /\ \E i \in 1..Len(channels) : Get(channels[i], "name", PyNone) = PyStr("A")
                /\ \A i \in 1..Len(channels) : Get(channels[i], "identifier", PyNone) /= PyStr("@c")

(***************************************************************************)
(* start_archiving while an archiving run is on                            *)
(***************************************************************************)
\* the archiving runs when nobody asks to stop them
NextBusy ==
    \/ StartWeb
    \/ StartArchiving
    \/ \E w \in 1..Len(workers) : WorkerInit(w)
    \/ \E w \in 1..Len(workers) : WorkerSpawn(w)
    \/ \E w \in 1..Len(workers) : WorkerPoll(w)
    \/ \E w \in 1..Len(workers) : WorkerRead(w)
    \/ \E w \in 1..Len(workers) : WorkerLine(w)
    \/ \E w \in 1..Len(workers) : WorkerWait(w)
    \/ \E w \in 1..Len(workers) : WorkerFinish(w)
    \/ \E c \in 1..Len(children) : ChildExit(c)

SpecBusy == Init /\ [][NextBusy]_vars

\* C17: start_archiving called while archiving_status["running"] is true
\* returns the error "Archiving is already running", starts no thread and no
\* child process, and leaves archiving_status unchanged.
C17_BusyStartRefused ==
    [][(status.running /\ StartArchiving)
          => /\ last'.returned = "error"
             /\ workers' = workers
             /\ children' = children
             /\ archiving_process' = archiving_process
             /\ status' = status]_vars

\* a start was refused while a run was on that had made progress already
C17_Witness ==
    /\ last.op = "start_archiving" /\ last.returned = "error"
    /\ status.running
    /\ Len(status.logs) > 1
    /\ ActiveWorkers /= {}

(***************************************************************************)
(* Update and delete by index                                              *)
(***************************************************************************)
UpdateInputs ==
    {Request("api_add_channel", 0, AddData("@b", "B", TRUE)),
     Request("api_update_channel", 0, << <<"name", PyStr(" Z ")>> >>),
     Request("api_update_channel", 1, << <<"identifier", PyStr("@z ")>>, <<"enabled", PyBool(FALSE)>>,
                                         <<"note", PyStr("x")>> >>),
     Request("api_update_channel", 0, <<>>),
     Request("api_update_channel", 2, << <<"name", PyStr("Z")>> >>),
     Request("api_update_channel", -1, << <<"name", PyStr("Z")>> >>),
     Request("api_delete_channel", -1, <<>>),
     Request("api_delete_channel", 1, <<>>)}

BeginUpdate == BeginOf(UpdateInputs, MaxSeqRequests, 1)

NextUpdate ==
    \/ StartWeb
    \/ BeginUpdate
    \/ \E r \in 1..Len(requests) : SaveOpen(r)
    \/ \E r \in 1..Len(requests) : SaveDump(r)
    \/ Return

SpecUpdate == InitConfig /\ [][NextUpdate]_vars

\* the number of channels in the configuration the file holds
ChannelCount(file) ==
    CHOOSE n \in {IF loaded.ok THEN Len(Get(loaded.v, "channels", EmptyList).v) ELSE 0 :
                  loaded \in {load_config(file)}} : TRUE

\* an update or a delete by index arrives in this step
ByIndexArrives ==
    /\ Len(requests') = Len(requests) + 1
    /\ requests'[Len(requests')].op \in {"api_update_channel", "api_delete_channel"}

\* C18: an update-by-index or delete-by-index request whose index is negative
\* or not smaller than the current number of channels is answered with
\* success=false, "Channel not found", and config.json is not written.
C18_OutOfRangeRefused ==
    [][(/\ ByIndexArrives
        /\ \/ requests'[Len(requests')].index < 0
           \/ requests'[Len(requests')].index >= ChannelCount(config_json))
          => Refused(requests'[Len(requests')], "Channel not found")]_vars

(***************************************************************************)
(* What a successful update leaves alone                                   *)
(***************************************************************************)
Keys(d) == {d.v[k][1] : k \in 1..Len(d.v)}

\* the fields an update can set
ChannelFields == {"identifier", "name", "enabled"}

\* dictionary `after` is `before` but for the values under the keys `changed`
SameBut(before, after, changed) ==
    /\ Len(after.v) = Len(before.v)
    /\ \A k \in 1..Len(before.v) :
          /\ after.v[k][1] = before.v[k][1]
          /\ before.v[k][1] \notin changed => after.v[k][2] = before.v[k][2]

\* the update at index i with body `data` has taken the configuration from
\* `before` to `after`
UpdateFrame(before, after, i, data) ==
    /\ SameBut(before, after, {"channels"})
    /\ \E old \in {Get(before, "channels", EmptyList).v} :
       \E new \in {Get(after, "channels", EmptyList).v} :
          /\ Len(new) = Len(old)
          /\ \A j \in 1..Len(old) : j /= i + 1 => new[j] = old[j]
          /\ SameBut(old[i + 1], new[i + 1], Keys(data) \cap ChannelFields)

UpdateRaceInputs ==
    {Request("api_add_channel", 0, AddData("@b", "B", TRUE)),
     Request("api_update_channel", 0, << <<"name", PyStr(" Z ")>> >>),
     Request("api_update_channel", 1, << <<"identifier", PyStr("@z ")>>, <<"enabled", PyBool(FALSE)>>,
                                         <<"note", PyStr("x")>> >>),
     Request("api_update_settings", 0, << <<"days_back", PyInt(30)>> >>)}

BeginUpdateRace == BeginOf(UpdateRaceInputs, MaxRequests, MaxRequests)

NextUpdateRace ==
    \/ StartWeb
    \/ BeginUpdateRace
    \/ \E r \in 1..Len(requests) : SaveOpen(r)
    \/ \E r \in 1..Len(requests) : SaveDump(r)
    \/ Return

SpecUpdateRace == InitConfig /\ [][NextUpdateRace]_vars

\* request u is an update that answered success, and its write of
\* config.json is the latest
UpdateWrote(u) ==
    Wrote(u) /\ requests[u].op = "api_update_channel" /\ requests[u].wrote_at = writes

\* the update u writes config.json in this step and answers success
UpdateSaves(u) ==
    /\ requests[u].op = "api_update_channel"
    /\ requests[u].pc = "dump"
    /\ requests'[u].pc = "done"

\* nothing was written to config.json between the load and the save of u
OnItsOwn(u) == requests[u].loaded_at = requests[u].wrote_at - 1

\* the configuration config.json held before the save of u: the one of the
\* write before, and with no write before the one u loaded
HeldBefore(u) ==
    IF \E r \in 1..Len(requests) : Wrote(r) /\ requests[r].wrote_at = requests[u].wrote_at - 1
    THEN requests[CHOOSE r \in 1..Len(requests) :
                     Wrote(r) /\ requests[r].wrote_at = requests[u].wrote_at - 1].config
    ELSE requests[u].loaded

\* C19 as stated: a successful update-by-index at index i changes only those
\* of the fields identifier, name and enabled that are present in the request
\* body, in entry i only: the other fields of entry i, every other entry, the
\* number and order of the entries, api_credentials and archive_settings are
\* in config.json as they were before the update saved it.
C19_AsStated ==
    [][\A u \in 1..Len(requests) :
          UpdateSaves(u) =>
              \E stored \in {load_config(config_json')} :
                  stored.ok /\ UpdateFrame(HeldBefore(u)', stored.v, requests[u].index, requests[u].data)]_vars

\* C19: a successful update-by-index at index i, with no other write of
\* config.json between its load and its save, changes only those of the
\* fields identifier, name and enabled that are present in the request body,
\* in entry i only: the other fields of entry i, every other entry, the
\* number and order of the entries, api_credentials and archive_settings are
\* in config.json as they were.
C19_UpdateFrame ==
    [][\A u \in 1..Len(requests) :
          (UpdateSaves(u) /\ OnItsOwn(u)') =>
              \E stored \in {load_config(config_json')} :
                  /\ stored.ok
                  /\ UpdateFrame(requests[u].loaded, stored.v, requests[u].index, requests[u].data)
                  /\ UpdateFrame(HeldBefore(u)', stored.v, requests[u].index, requests[u].data)]_vars

\* an update of the second of two entries has answered success on its own:
\* its body set the identifier and the enabled flag and carried a key the
\* entries do not have, and config.json holds credentials and settings
C19_Witness ==
    \E u \in 1..Len(requests) :
        /\ UpdateWrote(u) /\ OnItsOwn(u)
        /\ requests[u].index = 1 /\ Has(requests[u].data, "note")
        /\ Get(requests[u].response.payload, "identifier", PyNone) = PyStr("@z")
        /\ \E stored \in {load_config(config_json)} :
              /\ stored.ok
              /\ Len(Get(stored.v, "channels", EmptyList).v) = 2
              /\ Has(stored.v, "api_credentials") /\ Has(stored.v, "archive_settings")
              /\ Get(stored.v, "channels", EmptyList) /= Get(requests[u].loaded, "channels", EmptyList)

(***************************************************************************)
(* What a settings update leaves alone                                     *)
(***************************************************************************)
SettingsInputs ==
    {Request("api_add_channel", 0, AddData("@b", "B", TRUE)),
     Request("api_update_settings", 0, << <<"days_back", PyStr("30")>> >>),
     Request("api_update_settings", 0, << <<"messages_per_channel", PyInt(50)>>, <<"download_media", PyInt(0)>>,
                                          <<"theme", PyStr("dark")>> >>),
     Request("api_update_settings", 0, << <<"output_directory", PyStr(" out ")>> >>),
     Request("api_update_settings", 0, << <<"messages_per_channel", PyInt(9)>>, <<"days_back", PyStr("x")>> >>),
     Request("api_update_settings", 0, <<>>)}

BeginSettings == BeginOf(SettingsInputs, MaxSeqRequests, 1)

NextSettings ==
    \/ StartWeb
    \/ BeginSettings
    \/ \E r \in 1..Len(requests) : SaveOpen(r)
    \/ \E r \in 1..Len(requests) : SaveDump(r)
    \/ Return

SpecSettings == InitConfig /\ [][NextSettings]_vars

\* the keys a settings update can set
SettingsKeys == {"messages_per_channel", "days_back", "output_directory", "download_media"}

\* dictionary `after` has the keys of `before` and those of `changed`, and
\* under every other key than those of `changed` the value of `before`
Kept(before, after, changed) ==
    /\ Keys(before) \subseteq Keys(after)
    /\ Keys(after) \subseteq Keys(before) \cup changed
    /\ \A key \in Keys(before) \ changed : Get(after, key, PyNone) = Get(before, key, PyNone)

\* the settings update with body `data` has taken the configuration from
\* `before` to `after`
SettingsFrame(before, after, data) ==
    /\ Kept(before, after, {"archive_settings"})
    /\ Kept(Get(before, "archive_settings", EmptyDict), Get(after, "archive_settings", EmptyDict),
            Keys(data) \cap SettingsKeys)

\* the latest answer is that of the endpoint
Answered(op) == last.op = op /\ last.pc = "done"

\* C20: a settings update, run on its own, changes only those of the keys
\* messages_per_channel, days_back, output_directory and download_media that
\* are present in the request; the other archive settings, the channel list
\* and api_credentials in config.json are unchanged.  (An update that is
\* refused changes nothing at all.)
C20_SettingsFrame ==
    Answered("api_update_settings") =>
        IF last.response.success
        THEN \E stored \in {load_config(config_json)} :
                stored.ok /\ SettingsFrame(last.loaded, stored.v, last.data)
        ELSE last.wrote_at = 0

\* a settings update has answered success after it set two of the four keys
\* from a body with a key of no meaning, in a configuration that holds
\* credentials, two channels and a setting the body did not name
C20_Witness ==
    /\ Answered("api_update_settings") /\ last.response.success
    /\ Has(last.data, "theme") /\ Has(last.data, "messages_per_channel")
    /\ \E stored \in {load_config(config_json)} :
          /\ stored.ok
          /\ Has(stored.v, "api_credentials")
          /\ Len(Get(stored.v, "channels", EmptyList).v) = 2
          /\ Get(Get(stored.v, "archive_settings", EmptyDict), "days_back", PyNone) = PyInt(30)
          /\ Get(Get(stored.v, "archive_settings", EmptyDict), "download_media", PyNone) = PyBool(FALSE)
          /\ ~Has(Get(stored.v, "archive_settings", EmptyDict), "theme")

(***************************************************************************)
(* TelegramMonitor.monitor_channels and the new-message handler.  The ids  *)
(* of the chat service exceed the machine integers of the checker and are  *)
(* written as decimal strings.                                             *)
(***************************************************************************)
\* what get_entity answers: a Channel, a Chat, a User, or nothing
EntityKind(identifier) ==
    CASE identifier = "@news" -> "channel" [] identifier = "@q-a" -> "channel"
      [] identifier = "@qa" -> "chat" [] identifier = "@bob" -> "user" [] OTHER -> "none"

\* entity.id: the id within the entity's own kind; the user @bob and the
\* channel @news have the same one
EntityId(identifier) ==
    CASE identifier = "@news" -> "1001" [] identifier = "@q-a" -> "1002"
      [] identifier = "@qa" -> "77" [] identifier = "@bob" -> "1001"

\* event.chat_id: the id of the event's peer, marked with the peer's kind as
\* the client library does: a user's id as it is, a chat's negated, a
\* channel's as -(1000000000000 + id)
ChatId(identifier) ==
    CASE EntityKind(identifier) = "user" -> EntityId(identifier)
      [] EntityKind(identifier) = "chat" -> "-" \o EntityId(identifier)
      [] EntityKind(identifier) = "channel" ->
            "-1" \o Repeat("0", 12 - Len(EntityId(identifier))) \o EntityId(identifier)

MaxEvents == 2

MonitorLists == {<<"@news", "@qa">>, <<"@gone", "@bob">>, <<"@bob", "@news">>}

\* monitor_channels(channels) is called
MonitorChannels ==
    /\ monitor.pc = "new"
    /\ \E channels \in MonitorLists : monitor' = [monitor EXCEPT !.pc = "adding", !.channels = channels, !.i = 1]
    /\ UNCHANGED <<archVars, web, mgrVars, cfgVars, handlers, batch, control, last>>

\* one iteration of the loop of monitor_channels: add_channel_to_monitor
AddChannelToMonitor ==
    /\ monitor.pc = "adding"
    /\ monitor.i <= Len(monitor.channels)
    /\ \E channel_identifier \in {monitor.channels[monitor.i]} :
          monitor' =
             IF EntityKind(channel_identifier) \in {"channel", "chat"}
             THEN [monitor EXCEPT
                      !.monitored_channels =
                          [id \in DOMAIN @ \cup {EntityId(channel_identifier)} |->
                              IF id = EntityId(channel_identifier) THEN Title(channel_identifier) ELSE @[id]],
                      !.registered = @ \cup {channel_identifier},
                      !.i = @ + 1]
             ELSE [monitor EXCEPT !.i = @ + 1]
    /\ UNCHANGED <<archVars, web, mgrVars, cfgVars, handlers, batch, control, last>>

\* the loop is over: with no channel added monitor_channels returns,
\* otherwise the handler is registered and the monitor runs
MonitorRun ==
    /\ monitor.pc = "adding"
    /\ monitor.i > Len(monitor.channels)
    /\ monitor' = IF monitor.registered = {} THEN [monitor EXCEPT !.pc = "stopped"]
                  ELSE [monitor EXCEPT !.pc = "running", !.running = TRUE]
    /\ UNCHANGED <<archVars, web, mgrVars, cfgVars, handlers, batch, control, last>>

\* handle_new_message(event) for a message that arrives in the chat `chat`
NewMessage ==
    /\ monitor.pc = "running"
    /\ Len(monitor.events) < MaxEvents
    /\ \E chat \in {"@news", "@qa", "@q-a", "@bob"}, message \in LiveMessages, outcome \in {"saved", "nothing"} :
          /\ monitor' = [monitor EXCEPT !.events = Append(@, [chat |-> chat, message |-> message])]
          /\ IF ChatId(chat) \in DOMAIN monitor.monitored_channels
             THEN SaveBegins(message, monitor.monitored_channels[ChatId(chat)], outcome,
                             Len(monitor.events) + 1)
             ELSE outcome = "nothing" /\ UNCHANGED <<fs, handlers>>
    /\ UNCHANGED <<now, nArch, nDown, roots, web, mgrVars, cfgVars, batch, control, last>>

\* a signal ends the loop of monitor_channels: stop()
MonitorStop ==
    /\ monitor.pc = "running"
    /\ monitor' = [monitor EXCEPT !.pc = "stopped", !.running = FALSE]
    /\ UNCHANGED <<archVars, web, mgrVars, cfgVars, handlers, batch, control, last>>

NextMonitor ==
    \/ MonitorInit
    \/ MonitorChannels
    \/ AddChannelToMonitor
    \/ MonitorRun
    \/ NewMessage
    \/ SaveResume
    \/ MonitorStop
    \/ Tick

SpecMonitor == Init /\ [][NextMonitor]_vars

\* the executions of save_single_message made for event k
HandlersOf(k) == {h \in DOMAIN handlers : handlers[h].event = k}

\* handler h has appended the section of its message to the daily live file
\* of the channel titled `title`
SectionIn(h, title) ==
    /\ handlers[h].log_file = LogFile(title, handlers[h].at)
    /\ handlers[h].log_file \in DOMAIN fs
    /\ Contains(fs[handlers[h].log_file],
                format_message_as_markdown(handlers[h].message, title, handlers[h].media_path))

\* C16: every new-message event whose chat is one of the channels registered
\* by add_channel_to_monitor makes exactly one call of save_single_message,
\* which appends the rendered section of the message to that channel's daily
\* live file, and events from chats that were not registered write nothing.
C16_RegisteredEventsSaved ==
    \A k \in DOMAIN monitor.events :
        IF monitor.events[k].chat \in monitor.registered
        THEN /\ Cardinality(HandlersOf(k)) = 1
             /\ \A h \in HandlersOf(k) :
                   handlers[h].pc = "done" => SectionIn(h, Title(monitor.events[k].chat))
        ELSE HandlersOf(k) = {}

(***************************************************************************)
(* The config endpoints before a config.json that json.load rejects        *)
(***************************************************************************)
\* texts that are not JSON: a file cut short, an emptied file, plain words
UnreadableTexts == {"{\"channels\": [", "", "channels: none"}

InitUnreadable ==
    /\ ArchInit /\ WebInit /\ MgrInit /\ RunInit /\ last = NoCall
    /\ config_json \in {[exists |-> TRUE, text |-> text] : text \in UnreadableTexts \cup {json_dump(ShippedConfig)}}
    /\ requests = <<>>
    /\ writes = 0

UnreadableInputs ==
    {Request("api_get_channels", 0, <<>>),
     Request("api_add_channel", 0, AddData("@b", "B", TRUE)),
     Request("api_add_channel", 0, AddData("b", "", TRUE)),
     Request("api_update_channel", 0, << <<"name", PyStr("Z")>> >>),
     Request("api_delete_channel", 0, <<>>),
     Request("api_get_settings", 0, <<>>),
     Request("api_update_settings", 0, << <<"days_back", PyInt(3)>> >>)}

BeginUnreadable == BeginOf(UnreadableInputs, MaxSeqRequests, 1)

NextUnreadable ==
    \/ StartWeb
    \/ BeginUnreadable
    \/ \E r \in 1..Len(requests) : SaveOpen(r)
    \/ \E r \in 1..Len(requests) : SaveDump(r)
    \/ Return

SpecUnreadable == InitUnreadable /\ [][NextUnreadable]_vars

\* config.json exists and json.load raises on its text
Unreadable(file) == file.exists /\ ~json_load(file.text).ok

\* the request that has just arrived
Arrived == requests'[Len(requests')]

\* C21: when config.json exists but is not valid JSON, a request to any of
\* the six config endpoints (get, add, update, delete channel; get, update
\* settings) is answered success=false with an error text, the handler is
\* through without a call of save_config, and config.json is exactly as it
\* was.
C21_UnreadableRefused ==
    [][(BeginUnreadable /\ Unreadable(config_json)) =>
          /\ Arrived.pc = "done"
          /\ Arrived.wrote_at = 0
          /\ DOMAIN Arrived.response = {"success", "error"}
          /\ ~Arrived.response.success
          /\ Arrived.response.error /= ""
          /\ config_json' = config_json]_vars

\* three requests, the last of them a delete, have been refused one after
\* the other because the file, which still holds its cut-short text, did not
\* parse
C21_Witness ==
    /\ Len(requests) = MaxSeqRequests
    /\ \A r \in 1..Len(requests) : requests[r].pc = "done" /\ requests[r].response = Failure("JSONDecodeError")
    /\ {requests[r].op : r \in 1..Len(requests)}
          = {"api_update_settings", "api_update_channel", "api_delete_channel"}
    /\ config_json = [exists |-> TRUE, text |-> "{\"channels\": ["]

(***************************************************************************)
(* The end of an archiving run.  Runs are started one after the other: a   *)
(* start is made when the worker of the run before has ended.  The worker  *)
(* is a thread, and a thread that can take its next step takes it.         *)
(***************************************************************************)
MaxSeqRuns == 1

\* the lines of a child from which the monitor loop computes the progress;
\* a child prints two of them
ProgressLines == {"Processing channel: News", "Total channels: 2"}

StartAfterEnd == ActiveWorkers = {} /\ StartArchivingOf(MaxSeqRuns)

WorkerStep(w) ==
    \/ WorkerInit(w)
    \/ WorkerSpawn(w)
    \/ WorkerPoll(w)
    \/ WorkerRead(w)
    \/ WorkerLineOf(w, ProgressLines, Cardinality(ProgressLines))
    \/ WorkerWait(w)
    \/ WorkerFinish(w)

NextRun ==
    \/ StartWeb
    \/ StartAfterEnd
    \/ \E w \in 1..Len(workers) : WorkerStep(w)
    \/ \E c \in 1..Len(children) : ChildExit(c)
    \/ StopBegin
    \/ StopEnd

SpecRun == Init /\ [][NextRun]_vars

FairRun == SpecRun /\ WF_vars(\E w \in 1..Len(workers) : WorkerStep(w))

\* run w is on and the child process it started has exited
ChildGone(w) ==
    /\ w \in ActiveWorkers
    /\ archiving_process /= 0
    /\ ~Alive(archiving_process)

\* run w is over, running is false and archiving_process is None
RunOver(w) ==
    /\ w <= Len(workers)
    /\ workers[w].pc = "done"
    /\ ~status.running
    /\ archiving_process = 0

\* the step with which the worker of run w ends
Ends(w) == workers[w].pc /= "done" /\ workers'[w].pc = "done"

\* what the last step of worker w leaves in archiving_status
Outcome(w) ==
    /\ ~status'.running
    /\ archiving_process' = 0
    /\ IF workers[w].pc = "waiting"
       THEN IF children[workers[w].on].code = 0
            THEN /\ status'.progress = 100
                 /\ status'.current_channel = "Completed"
                 /\ status'.error = status.error
            ELSE /\ status'.error = "Process exited with code"
                 /\ status'.progress = status.progress
                 /\ status'.current_channel = status.current_channel
       ELSE /\ status'.error \notin {None, "Process exited with code"}
            /\ status'.progress = status.progress

LoopForever(m) == TRUE

\* while self.running
LoopGoesOn(m) == m.running

\* signal_handler(signum, frame), for SIGINT and for SIGTERM
Signal ==
    /\ monitor.pc = "running"
    /\ monitor.running
    /\ \E signum \in {2, 15} : monitor' = [monitor EXCEPT !.running = FALSE]
    /\ UNCHANGED <<archVars, web, mgrVars, cfgVars, handlers, batch, control, last>>

\* asyncio.sleep(1) is over and the loop condition fails
LoopEnds ==
    /\ monitor.pc = "running"
    /\ ~LoopGoesOn(monitor)
    /\ monitor' = [monitor EXCEPT !.pc = "stopping"]
    /\ UNCHANGED <<archVars, web, mgrVars, cfgVars, handlers, batch, control, last>>

\* stop(): running = False, and the clients are disconnected; the handlers
\* still waiting for a download are cancelled with the client
Stop ==
    /\ monitor.pc = "stopping"
    /\ monitor' = [monitor EXCEPT !.pc = "stopped", !.running = FALSE]
    /\ handlers' = [h \in DOMAIN handlers |->
                       IF handlers[h].pc = "download" THEN [handlers[h] EXCEPT !.pc = "cancelled"]
                       ELSE handlers[h]]
    /\ UNCHANGED <<archVars, web, mgrVars, cfgVars, batch, control, last>>

NextShutdown ==
    \/ MonitorInit
    \/ MonitorChannels
    \/ AddChannelToMonitor
    \/ MonitorRun
    \/ NewMessage
    \/ SaveResume
    \/ Signal
    \/ LoopEnds
    \/ Stop
    \/ Tick

SpecShutdown == Init /\ [][NextShutdown]_vars

FairShutdown == SpecShutdown /\ WF_vars(LoopEnds) /\ WF_vars(Stop)

\* a signal has been delivered to the monitor in its loop
SignalDelivered == monitor.pc = "running" /\ ~monitor.running

\* stop() has run to its end
StopCompleted == monitor.pc = "stopped" /\ ~monitor.running

\* the live files with what they hold
LiveFiles == [p \in {q \in DOMAIN fs : IsLiveFile(q)} |-> fs[p]]

\* C23: after SIGINT or SIGTERM is delivered to a monitor that is in its
\* monitoring loop, the loop ends and stop() runs to its end, with `running`
\* false and the clients disconnected; once stop has completed no handler
\* starts and no message is saved.
C23_SignalStops ==
    /\ SignalDelivered ~> StopCompleted
    /\ [][StopCompleted => /\ StopCompleted'
                           /\ Len(handlers') = Len(handlers)
                           /\ LiveFiles' = LiveFiles]_vars

\* the monitor has stopped on a signal after it had saved one message and
\* while the handler of a second one was waiting for its download
C23_Witness ==
    /\ StopCompleted
    /\ monitor.registered /= {}
    /\ \E h, k \in DOMAIN handlers : handlers[h].pc = "done" /\ handlers[k].pc = "cancelled"
    /\ LiveFiles /= <<>>

(***************************************************************************)
(* A stop request and the child of the run it stops                        *)
(***************************************************************************)
\* the latest call is a stop_archiving that returned {"success": true}
StopSucceeded == last = [op |-> "stop_archiving", returned |-> "success"]

\* C24: after stop_archiving has returned success, no child archiver process
\* of the stopped run is alive, and none is started later by that run's
\* worker, whether the stop request arrived before or after the child was
\* spawned.  (Stated for the first run, whose children are all the children
\* there are.)
C24_NoChildAfterStop == (StopSucceeded /\ Len(workers) = 1) => AliveChildren = {}

(***************************************************************************)
(* The worker of a stopped run beside the run started after the stop       *)
(***************************************************************************)
\* a step of the worker of the first run, taken when a second run has been
\* started (which start_archiving allows only after a stop, or after the
\* first worker's end)
OldWorkerSteps == Len(workers) = 2 /\ workers'[1] /= workers[1]

\* C25: the worker thread of an archiving run that was stopped never alters
\* the state of a later run: its steps leave archiving_status["running"]
\* and archiving_process as the new run has them, and add nothing to the new
\* run's logs and error.
C25_OldWorkerSilent ==
    [][OldWorkerSteps => /\ status'.running = status.running
                         /\ archiving_process' = archiving_process
                         /\ status'.logs = status.logs
                         /\ status'.error = status.error]_vars

(***************************************************************************)
(* The channel list as a set of distinct entries                           *)
(***************************************************************************)
\* no two entries of the list have the same value under `key`
DistinctBy(channels, key) ==
    \A i, j \in 1..Len(channels) :
        i /= j => Get(channels[i], key, PyNone) /= Get(channels[j], key, PyNone)

\* C26: starting from a config whose channel entries have pairwise distinct
\* identifiers and pairwise distinct names, after any sequence of add,
\* update-by-index and delete-by-index requests run one at a time, no two
\* channel entries of config.json share an identifier and no two share a
\* name.
C26_DistinctChannels ==
    \A stored \in {load_config(config_json)} :
        stored.ok =>
            /\ DistinctBy(Get(stored.v, "channels", EmptyList).v, "identifier")
            /\ DistinctBy(Get(stored.v, "channels", EmptyList).v, "name")

(***************************************************************************)
(* The web frontend: /view/<channel_name>/<file_name> and /media/<path>.   *)
(* view_file rewrites the media links of the file it shows; a browser      *)
(* resolves each link against the page's address and asks for it.          *)
(***************************************************************************)
\* the end of the run of characters outside `stops` that starts at k (k - 1
\* when the run is empty)
RunOutside(s, k, stops) ==
    LET ends == {j \in k..Len(s) : CharAt(s, j) \in stops}
    IN  IF ends = {} THEN Len(s) ELSE Min(ends) - 1

\* the end of the link text that starts behind a "[" at i
TextEnd(content, i) == RunOutside(content, i + 1, {"]"})

\* the end of the path of the link at i: it starts behind "](media/"
PathEnd(content, i) == RunOutside(content, TextEnd(content, i) + 9, {")"})

\* r'\[([^\]]+)\]\(media/([^)]+)\)' matches at position i
LinkAt(content, i) ==
    /\ CharAt(content, i) = "["
    /\ TextEnd(content, i) >= i + 1
    /\ StartsAt(content, "](media/", TextEnd(content, i) + 1)
    /\ PathEnd(content, i) >= TextEnd(content, i) + 9
    /\ PathEnd(content, i) < Len(content)

\* re.sub(r'\[([^\]]+)\]\(media/([^)]+)\)', fix_media_link, content), from
\* position i on: the link keeps its text and gets the last segment of its
\* path behind /media/
RECURSIVE FixMediaLinks(_, _)
FixMediaLinks(content, i) ==
    LET starts == {j \in i..Len(content) : LinkAt(content, j)}
    IN  IF starts = {} THEN From(content, i)
        ELSE CHOOSE fixed \in
                {SubSeq(content, i, j - 1) \o "[" \o SubSeq(content, j + 1, TextEnd(content, j)) \o "](/media/"
                    \o AfterLast(SubSeq(content, TextEnd(content, j) + 9, PathEnd(content, j)), "/") \o ")"
                    \o FixMediaLinks(content, PathEnd(content, j) + 2) : j \in {Min(starts)}} : TRUE

\* r'media/([^)\s]+)' matches at position i
ReferenceAt(content, i) ==
    StartsAt(content, "media/", i) /\ RunOutside(content, i + 6, {")"} \cup Whitespace) >= i + 6

\* re.sub(r'media/([^)\s]+)', r'/media/\1', fixed_content), from position i
RECURSIVE FixMediaReferences(_, _)
FixMediaReferences(content, i) ==
    LET starts == {j \in i..Len(content) : ReferenceAt(content, j)}
    IN  IF starts = {} THEN From(content, i)
        ELSE CHOOSE fixed \in
                {SubSeq(content, i, j - 1) \o "/"
                    \o SubSeq(content, j, RunOutside(content, j + 6, {")"} \cup Whitespace))
                    \o FixMediaReferences(content, RunOutside(content, j + 6, {")"} \cup Whitespace) + 1) :
                    j \in {Min(starts)}} : TRUE

\* fixed_content of view_file
Fixed(content) == FixMediaReferences(FixMediaLinks(content, 1), 1)

\* the addresses of the links and images of a page: what stands between
\* "](" and the next ")"
LinkTargets(content) ==
    {SubSeq(content, k + 2, RunOutside(content, k + 2, {")"})) :
        k \in {j \in 1..Len(content) : StartsAt(content, "](", j)}}

\* where a browser goes for an address found on a page of this server: an
\* address that begins with two slashes names another host, one that begins
\* with /media/ is a request to serve_media
Resolve(link) ==
    IF StartsWith(link, "//") THEN [here |-> FALSE, route |-> "none", filename |-> ""]
    ELSE IF StartsWith(link, "/media/") THEN [here |-> TRUE, route |-> "serve_media", filename |-> From(link, 8)]
    ELSE [here |-> TRUE, route |-> "none", filename |-> ""]

\* get_message_content: the file under the first archive directory that has it
get_message_content(files, archive_dirs, channel_name, file_name) ==
    LET found == {k \in 1..Len(archive_dirs) : <<archive_dirs[k], channel_name, file_name>> \in DOMAIN files}
    IN  IF found = {} THEN [root |-> None, content |-> ""]
        ELSE [root |-> archive_dirs[Min(found)], content |-> files[<<archive_dirs[Min(found)], channel_name, file_name>>]]

\* serve_media: the files it can send for `filename`.  The archive
\* directories are tried in list order; the channel directories of one
\* archive directory come in whatever order the listing gives them, and the
\* first one whose media directory has the file is served.
serve_media(files, archive_dirs, filename) ==
    LET hits(k) == {p \in DOMAIN files : p[1] = archive_dirs[k] /\ p[3] = "media/" \o filename}
        first == {k \in 1..Len(archive_dirs) : hits(k) /= {}}
    IN  IF first = {} THEN {} ELSE hits(Min(first))

\* GET /view/<channel_name>/<file_name> for a file that exists
ViewFile ==
    /\ last = NoCall
    /\ web.up
    /\ \E p \in DOMAIN fs :
          /\ IsMarkdownOf(p, p[1], p[2])
          /\ \E got \in {get_message_content(fs, web.archive_dirs, p[2], p[3])} :
                /\ got.content /= ""
                /\ \E fixed \in {Fixed(got.content)} :
                      last' = [op |-> "view_file", channel_name |-> p[2], file_name |-> p[3],
                               root |-> got.root, links |-> LinkTargets(fixed)]
    /\ UNCHANGED <<archVars, web, mgrVars, cfgVars, runVars>>

\* the names under which media files are stored, and one that is not
MediaNames == {From(p[3], 7) : p \in {q \in DOMAIN fs : StartsWith(q[3], "media/")}} \cup {"msg_1.jpg"}

\* GET /media/<filename>
ServeMedia ==
    /\ last = NoCall
    /\ web.up
    /\ \E filename \in MediaNames :
          \/ /\ serve_media(fs, web.archive_dirs, filename) = {}
             /\ last' = [op |-> "serve_media", filename |-> filename, sent |-> None]
          \/ \E p \in serve_media(fs, web.archive_dirs, filename) :
                last' = [op |-> "serve_media", filename |-> filename, sent |-> p]
    /\ UNCHANGED <<archVars, web, mgrVars, cfgVars, runVars>>

\* the monitor saves messages of two channels; the frontend shows the files
SaveForView == SaveCallOf({NewsHistory[1]}, {"News", "Q?A"}, {"saved"}, MaxSaves)

NextView ==
    \/ MonitorInit
    \/ SaveForView
    \/ SaveResume
    \/ StartWeb
    \/ ViewFile
    \/ ServeMedia
    \/ Return

SpecView == Init /\ [][NextView]_vars

\* C27: the media link of a message viewed in channel C's archive file
\* resolves to the media file that was downloaded for that message of
\* channel C: every link of the page that view_file makes of a file of C is
\* a request that serve_media answers with the file of that name in C's own
\* media directory, also when another channel has stored a file of the same
\* name.
C27_LinkToOwnMedia ==
    last.op = "view_file" =>
        \A link \in last.links :
            /\ Resolve(link).route = "serve_media"
            /\ serve_media(fs, web.archive_dirs, Resolve(link).filename)
                  = {<<last.root, last.channel_name, "media/" \o Resolve(link).filename>>}

(***************************************************************************)
(* The order of the sections of a live file.  The handlers are numbered in *)
(* the order of their events: a handler runs from its event to its first   *)
(* await without a break.                                                  *)
(***************************************************************************)
\* C28: the message sections of a daily live file appear in the order in
\* which the new-message events of that channel arrived, also when the
\* handlers of several messages are in progress at the same time and some
\* of them wait for a media download before they write.
C28_ArrivalOrder ==
    \A h1, h2 \in DOMAIN handlers :
        (/\ h1 < h2
         /\ handlers[h1].pc = "done" /\ handlers[h2].pc = "done"
         /\ handlers[h1].channel_name = handlers[h2].channel_name
         /\ handlers[h1].log_file = handlers[h2].log_file)
            => handlers[h1].order < handlers[h2].order

(***************************************************************************)
(* A file of rendered sections and what the indexer of the frontend makes  *)
(* of it                                                                   *)
(***************************************************************************)
\* message bodies: plain ones, and one with a line that reads like the
\* header of a message
IndexBodies == {"Hi", "", "see\n## Message 5 of the list"}

IndexMessages ==
    {Msg(id, StartTime - 3600, sender, text, NoMedia, FALSE, 0) :
        id \in {5, 12}, sender \in {User("Ann", "Lee"), NoSender}, text \in IndexBodies}

InitIndex ==
    /\ ArchInit /\ WebInit /\ MgrInit /\ CfgInit /\ RunInit
    /\ last \in {[op |-> "input", messages |-> messages] :
                    messages \in {<<m>> : m \in IndexMessages}
                                 \cup {<<m1, m2>> : m1 \in IndexMessages, m2 \in IndexMessages}}

RECURSIVE RenderSections(_, _, _)
\* the sections of the messages from the i-th on, as the archiver and the
\* monitor write them one behind the other
RenderSections(messages, i, channel_name) ==
    IF i > Len(messages) THEN ""
    ELSE format_message_as_markdown(messages[i], channel_name, None)
         \o RenderSections(messages, i + 1, channel_name)

\* the messages are written to a file
RenderFile ==
    /\ last.op = "input"
    /\ last' = [op |-> "rendered", messages |-> last.messages,
                content |-> RenderSections(last.messages, 1, "News")]
    /\ UNCHANGED <<archVars, web, mgrVars, cfgVars, runVars>>

\* len(re.findall(r'^## Message \d+', content, re.MULTILINE)) of
\* get_channel_files and get_stats
message_count(content) == Cardinality(HeaderStarts(content))

\* the frontend reads the file: the count of its messages and, for each
\* section of the split, the details search_messages takes from it
IndexFile ==
    /\ last.op = "rendered"
    /\ \E sections \in {SplitMessages(last.content)} :
          last' = [op |-> "indexed", messages |-> last.messages, content |-> last.content,
                   message_count |-> message_count(last.content),
                   results |-> [i \in 1..Len(sections) |->
                                   SearchResult("channel", "News", "News.md", sections[i], i - 1)]]
    /\ UNCHANGED <<archVars, web, mgrVars, cfgVars, runVars>>

NextIndex == RenderFile \/ IndexFile

SpecIndex == InitIndex /\ [][NextIndex]_vars

\* C29: for every file made of sections produced by
\* format_message_as_markdown, for any message body text, the indexer's
\* split on the message-header pattern yields exactly one section per
\* written message, so that the message count equals the number of messages
\* written, and the id, date and sender that search_messages extracts from
\* a section are those of the message that was rendered.
C29_RoundTrip ==
    last.op = "indexed" =>
        /\ last.message_count = Len(last.messages)
        /\ Len(last.results) = Len(last.messages)
        /\ \A i \in 1..Len(last.messages) :
              i <= Len(last.results) =>
                 /\ last.results[i].message_id = ToStr(last.messages[i].id)
                 /\ last.results[i].date = Timestamp(last.messages[i].date)
                 /\ last.results[i].sender = SenderLabel(last.messages[i].sender)

(***************************************************************************)
(* monitor_control.py: start, stop and restart, given one at a time.  A    *)
(* monitor process that received SIGTERM shuts down and exits when it has  *)
(* got that far; until then the process is there and pgrep lists it.       *)
(***************************************************************************)
MaxCommands == 4

\* the monitor processes that exist, by their number
LiveMonitors == {p \in 1..Len(control.processes) : control.processes[p] /= "exited"}

\* check_monitor_running(): pgrep -f telegram_monitor.py
check_monitor_running == [is_running |-> LiveMonitors /= {}, pid |-> LiveMonitors]

\* python monitor_control.py <command>
Command ==
    /\ last = NoCall
    /\ control.pc = "idle"
    /\ control.issued < MaxCommands
    /\ \E command \in {"start", "stop", "restart"} :
          control' = [control EXCEPT !.command = command, !.issued = @ + 1,
                                     !.pc = IF command = "start" THEN "start" ELSE "stop"]
    /\ UNCHANGED <<archVars, web, mgrVars, cfgVars, monitor, handlers, batch, last>>

\* the command is through, leaving `c`
CommandEnds(c) ==
    /\ control' = [c EXCEPT !.pc = "idle", !.command = "none", !.pid = {}]
    /\ last' = [op |-> "monitor_control", command |-> c.command]

\* stop_monitor returns, leaving `c`: `restart` goes on to time.sleep(2)
StopMonitorReturns(c) ==
    IF c.command = "restart"
    THEN control' = [c EXCEPT !.pc = "sleep", !.pid = {}] /\ UNCHANGED last
    ELSE CommandEnds(c)

\* stop_monitor up to "Stopping Telegram Monitor..."
StopMonitorCheck ==
    /\ control.pc = "stop"
    /\ IF check_monitor_running.is_running
       THEN control' = [control EXCEPT !.pc = "kill", !.pid = check_monitor_running.pid] /\ UNCHANGED last
       ELSE StopMonitorReturns(control)
    /\ UNCHANGED <<archVars, web, mgrVars, cfgVars, monitor, handlers, batch>>

\* for p in pid.split('\n'): os.kill(int(p), signal.SIGTERM); the loop ends
\* at the first process that is no longer there
StopMonitorKill ==
    /\ control.pc = "kill"
    /\ LET gone == {p \in control.pid : control.processes[p] = "exited"}
           signalled == IF gone = {} THEN control.pid ELSE {p \in control.pid : p < Min(gone)}
       IN  StopMonitorReturns([control EXCEPT !.processes =
                                  [p \in DOMAIN @ |-> IF p \in signalled THEN "terminating" ELSE @[p]]])
    /\ UNCHANGED <<archVars, web, mgrVars, cfgVars, monitor, handlers, batch>>

\* time.sleep(2) of `restart` is over
RestartSleep ==
    /\ control.pc = "sleep"
    /\ control' = [control EXCEPT !.pc = "start"]
    /\ UNCHANGED <<archVars, web, mgrVars, cfgVars, monitor, handlers, batch, last>>

\* start_monitor up to "Starting Telegram Monitor..."
StartMonitorCheck ==
    /\ control.pc = "start"
    /\ IF check_monitor_running.is_running
       THEN CommandEnds(control)
       ELSE control' = [control EXCEPT !.pc = "spawn"] /\ UNCHANGED last
    /\ UNCHANGED <<archVars, web, mgrVars, cfgVars, monitor, handlers, batch>>

\* subprocess.Popen([sys.executable, 'telegram_monitor.py'])
StartMonitorSpawn ==
    /\ control.pc = "spawn"
    /\ CommandEnds([control EXCEPT !.processes = Append(@, "running")])
    /\ UNCHANGED <<archVars, web, mgrVars, cfgVars, monitor, handlers, batch>>

\* a monitor that received SIGTERM has shut down: its process exits
MonitorExits ==
    /\ \E p \in 1..Len(control.processes) :
          /\ control.processes[p] = "terminating"
          /\ control' = [control EXCEPT !.processes[p] = "exited"]
    /\ UNCHANGED <<archVars, web, mgrVars, cfgVars, monitor, handlers, batch, last>>

NextControl ==
    \/ Command
    \/ StopMonitorCheck
    \/ StopMonitorKill
    \/ RestartSleep
    \/ StartMonitorCheck
    \/ StartMonitorSpawn
    \/ MonitorExits
    \/ Return

SpecControl == Init /\ [][NextControl]_vars

\* C30: the monitor control commands keep at most one monitor process
\* running, and after `restart` (stop, wait 2 seconds, start) has finished a
\* monitor process is running, however long the previous monitor takes to
\* shut down after it received SIGTERM.
C30_OneMonitor ==
    /\ Cardinality(LiveMonitors) <= 1
    /\ last = [op |-> "monitor_control", command |-> "restart"] => LiveMonitors /= {}

====
